---- MODULE Spec2Model ----
(***************************************************************************)
(* A CCP-coordinated interbank network: the tick scheduler                 *)
(* (model/model.py), the bank agent (model/agents/BankAgent.py), the CCP   *)
(* agent (model/agents/CCPAgent.py) and the state fabric                   *)
(* (model/agents/redis_state.py).                                          *)
(*                                                                         *)
(* Units.  Money is counted in cents (1/100 of a currency unit), asset     *)
(* quantities in thousandths of a unit, rates and volatilities in 1e-4     *)
(* (basis points), utilities in thousandths.  A product with a decimal     *)
(* factor f is Frac(x, 1000 f); Python's round(x, 2) on a quantity is      *)
(* Round2.  A bank's Bayesian belief means (floats updated from noisy      *)
(* observations) are inputs of its step, drawn from the *Levels sets.      *)
(***************************************************************************)
EXTENDS Integers, Sequences, FiniteSets, TLC

VARIABLES
    t,        \* model.t, the tick counter of the scheduler
    pc,       \* the phase of FinancialNetworkModel.step that runs next
    cur,      \* index of the bank whose step runs next (AgentList.step)
    network,  \* the interbank graph: bank index -> set of neighbour indexes
    banks,    \* bank index -> the fields of the BankAgent
    ccp,      \* the fields of the CCPAgent
    market,   \* the scheduler's _current_volatility and _price_signal
    redis,    \* the keys of the state fabric
    aux,      \* uuid source and the run's history (deposits, absorptions, calls)
    metrics,  \* the scheduler's metric accumulators (_ts_*)
    procs     \* concurrent callers of the fabric: process -> position and locals

vars == <<t, pc, cur, network, banks, ccp, market, redis, metrics, aux, procs>>

----------------------------------------------------------------------------
(* Bounds of the model                                                     *)

NBanks == 3
MaxTick == 3
ShockStep == 2
MaxSales == 3
MaxMsgs == 2

Banks == 0 .. (NBanks - 1)

----------------------------------------------------------------------------
(* Arithmetic                                                              *)

Min(a, b) == IF a <= b THEN a ELSE b
Max(a, b) == IF a >= b THEN a ELSE b

\* x * f for a decimal factor f given in thousandths
Frac(x, n) == (x * n) \div 1000

\* Python round(): to the nearest multiple of unit, ties to the even multiple
RoundTo(x, unit) ==
    LET q == x \div unit
        r == x % unit
    IN  IF 2 * r < unit THEN q * unit
        ELSE IF 2 * r > unit THEN (q + 1) * unit
        ELSE IF q % 2 = 0 THEN q * unit ELSE (q + 1) * unit

\* round(q, 2) of a quantity kept in thousandths
Round2(q) == RoundTo(q, 10)

\* x ** 0.5 on thousandths: the largest r with r*r <= 1000 x, by bisection
RECURSIVE SqrtBetween(_, _, _)
SqrtBetween(x, lo, hi) ==
    IF hi - lo <= 1 THEN lo
    ELSE LET mid == (lo + hi) \div 2
         IN  IF mid * mid <= x THEN SqrtBetween(x, mid, hi)
             ELSE SqrtBetween(x, lo, mid)
Sqrt1000(x) == IF x <= 0 THEN 0 ELSE SqrtBetween(1000 * x, 0, 46000)

RECURSIVE SumSeq(_)
SumSeq(s) == IF s = <<>> THEN 0 ELSE Head(s) + SumSeq(Tail(s))

RECURSIVE SumSet(_, _)
SumSet(f, S) ==
    IF S = {} THEN 0
    ELSE LET x == CHOOSE y \in S : TRUE IN f[x] + SumSet(f, S \ {x})

SumMap(f) == SumSet(f, DOMAIN f)

\* an empty dict
EmptyMap == [x \in {} |-> 0]

\* d.get(k, dflt)
Get(d, k, dflt) == IF k \in DOMAIN d THEN d[k] ELSE dflt

\* d[k] = v on a dict
Put(d, k, v) == [x \in (DOMAIN d) \cup {k} |-> IF x = k THEN v ELSE d[x]]

\* del d[k]
Drop(d, k) == [x \in (DOMAIN d) \ {k} |-> d[x]]

\* the set's members in ascending order (iteration order of the bank list)
RECURSIVE Ascending(_)
Ascending(S) ==
    IF S = {} THEN <<>>
    ELSE LET m == CHOOSE x \in S : \A y \in S : x <= y
         IN  <<m>> \o Ascending(S \ {m})

----------------------------------------------------------------------------
(* Agent identifiers                                                       *)

\* f"bank_{bank_index:02d}"
BankIdTable == <<"bank_00", "bank_01", "bank_02", "bank_03", "bank_04">>
BankId(b) == BankIdTable[b + 1]

\* Python None where a string is expected
None == "<None>"

\* BankAgent._resolve_target_by_str: int(agent_id_str.split("_")[-1]) looked
\* up among the banks; -1 stands for None
ResolveTargetByStr(s) ==
    IF \E b \in Banks : BankId(b) = s
    THEN CHOOSE b \in Banks : BankId(b) = s
    ELSE -1

----------------------------------------------------------------------------
(* State fabric (RedisStateManager): lists, strings and counters by key    *)

\* RPUSH key v
Rpush(lists, key, v) ==
    IF key \in DOMAIN lists THEN [lists EXCEPT ![key] = Append(@, v)]
    ELSE Put(lists, key, <<v>>)

\* LRANGE key 0 -1
Lrange(lists, key) == Get(lists, key, <<>>)

\* DEL key
Del(lists, key) == Drop(lists, key)

\* INCRBYFLOAT key amount
IncrByFloat(counters, key, amount) == Put(counters, key, Get(counters, key, 0) + amount)

PublishMarginCall(r, bank_id, call) ==
    [r EXCEPT !.margin_calls = Rpush(@, bank_id, call)]

\* mutant: the inbox is read but not cleared
GetPendingMarginCallsKept(r, bank_id) ==
    [calls |-> Lrange(r.margin_calls, bank_id), redis |-> r]

\* get_pending_margin_calls: LRANGE, then DEL
GetPendingMarginCalls(r, bank_id) ==
    [calls |-> Lrange(r.margin_calls, bank_id),
     redis |-> [r EXCEPT !.margin_calls = Del(@, bank_id)]]

\* mutant: every public intent is pushed to the stream of the first tick
PublishToPublicStreamFirstTick(r, intent) ==
    [r EXCEPT !.stream_public = Rpush(@, 1, intent)]

PublishToPublicStream(r, intent) ==
    [r EXCEPT !.stream_public = Rpush(@, intent.tick, intent)]

PublishToPrivateStream(r, target, intent) ==
    [r EXCEPT !.stream_private = Rpush(@, target, intent)]

ReadPublicStream(r, tick) == Lrange(r.stream_public, tick)

\* read_private_stream: LRANGE, then DEL
ReadPrivateStream(r, agent_id) ==
    [intents |-> Lrange(r.stream_private, agent_id),
     redis |-> [r EXCEPT !.stream_private = Del(@, agent_id)]]

\* a or b, for Python values that are None, "" or a non-empty string
OrElse(a, b) == IF a \in {None, ""} THEN b ELSE a

\* the target of a private intent, from its payload keys in priority order
RouteTarget(payload) ==
    OrElse(Get(payload, "target", None),
    OrElse(Get(payload, "target_agent_id", None),
    OrElse(Get(payload, "borrower_bank_id", None),
           Get(payload, "final_destination", None))))

\* mutant: every intent is broadcast on the public stream
RouteIntentBroadcast(r, intent) ==
    PublishToPublicStream([r EXCEPT !.intents_queue = Append(@, intent)], intent)

\* mutant: the intent is routed to the streams but not pushed to the queue
RouteIntentStreamsOnly(r, intent) ==
    LET target == RouteTarget(intent.payload)
        sender == intent.agent_id
    IN  IF intent.visibility = "public" THEN PublishToPublicStream(r, intent)
        ELSE IF target \in {None, ""} THEN r
        ELSE LET r2 == PublishToPrivateStream(r, target, intent)
             IN  IF sender \notin {None, ""} /\ sender # target
                 THEN PublishToPrivateStream(r2, sender, intent)
                 ELSE r2

\* route_intent
RouteIntent(r, intent) ==
    LET r1 == [r EXCEPT !.intents_queue = Append(@, intent)]
        target == RouteTarget(intent.payload)
        sender == intent.agent_id
    IN  IF intent.visibility = "public" THEN PublishToPublicStream(r1, intent)
        ELSE IF target \in {None, ""} THEN r1
        ELSE LET r2 == PublishToPrivateStream(r1, target, intent)
             IN  IF sender \notin {None, ""} /\ sender # target
                 THEN PublishToPrivateStream(r2, sender, intent)
                 ELSE r2

----------------------------------------------------------------------------
(* Sale pricing with market impact (RedisStateManager.compute_sale_price)  *)

GetCumulativeSales(r, tick, asset) == Get(r.sales, <<tick, asset>>, 0)

\* sum of sales:{k}:{asset} for k in max(0, tick-lookback+1) .. tick
GetRecentSalePressure(r, tick, asset, lookback) ==
    LET ks == Max(0, tick - lookback + 1) .. tick
    IN  SumSet([k \in ks |-> Get(r.sales, <<k, asset>>, 0)], ks)

\* mutant: the sale is priced but its quantity is not recorded
RecordSaleDropped(r, tick, asset, amount) == r

\* record_sale: INCRBYFLOAT sales:{tick}:{asset}
RecordSale(r, tick, asset, amount) ==
    [r EXCEPT !.sales = IncrByFloat(@, <<tick, asset>>, amount)]

\* the price, in 1e-4, of a sale that saw cum_before and recent_pressure
SalePrice(cum_before, recent_pressure, depth, amount, vol, is_fire_sale) ==
    LET base_discount ==
            IF is_fire_sale THEN Min(4500, 1000 + Frac(vol, 400))
            ELSE Min(2000, 500 + Frac(vol, 300))
        base_price == 10000 - base_discount
        k_instant == IF is_fire_sale THEN 150 ELSE 80
        k_persist == IF is_fire_sale THEN 50 ELSE 20
        \* ratios and their roots in thousandths
        instantaneous ==
            Frac(Sqrt1000(((cum_before + amount) * 1000) \div Max(depth, 1000)),
                 k_instant)
        persistent ==
            Frac(Sqrt1000((recent_pressure * 1000) \div Max(depth * 3, 1000)),
                 k_persist)
        total_impact == Min(500, instantaneous + persistent)
        effective == Max(500, Frac(base_price, 1000 - total_impact))
    IN  [price_per_unit |-> effective,
         base_price |-> base_price,
         impact_discount |-> total_impact * 10]

\* GET market:depth, 200.0 when the key is absent
GetMarketDepth(r) == Get(r.market, "depth", 200000)

\* compute_sale_price as one call: read, price, then record
ComputeSalePrice(r, tick, asset, amount, vol, is_fire_sale) ==
    LET cum_before == GetCumulativeSales(r, tick, asset)
        recent == GetRecentSalePressure(r, tick, asset, 3)
        px == SalePrice(cum_before, recent, GetMarketDepth(r), amount, vol, is_fire_sale)
        r1 == RecordSale(r, tick, asset, amount)
        new_cum == GetCumulativeSales(r1, tick, asset)
    IN  [redis |-> r1,
         cum_before |-> cum_before,
         pricing |-> [price_per_unit |-> px.price_per_unit,
                      base_price |-> px.base_price,
                      impact_discount |-> px.impact_discount,
                      cumulative_volume |-> Round2(new_cum)]]

----------------------------------------------------------------------------
(* Intents (ActionIntent and IntentFactory)                                *)

Envelope(id, tick, agent_id, action_type, visibility, payload) ==
    [intent_id |-> id, tick |-> tick, agent_id |-> agent_id,
     action_type |-> action_type, visibility |-> visibility, payload |-> payload]

\* BankAgent.last_intent before the first step
NoIntent == Envelope(0, 0, None, "none", "private", EmptyMap)

RouteOtcProposal(id, tick, agent_id, target_agent_id, amount, interest_rate, tenor_ticks) ==
    Envelope(id, tick, agent_id, "route_otc_proposal", "private",
             [encrypted_content |-> [type |-> "otc_loan", amount |-> amount,
                                     interest_rate |-> interest_rate,
                                     tenor_ticks |-> tenor_ticks],
              target_agent_id |-> target_agent_id,
              routing |-> "ccp"])

IssueMarginCall(id, tick, agent_id, target_agent_id, margin_amount, deadline_tick, reason) ==
    Envelope(id, tick, agent_id, "issue_margin_call", "private",
             [target_agent_id |-> target_agent_id, margin_amount |-> margin_amount,
              deadline_tick |-> deadline_tick, reason |-> reason])

UpdateMarketData(id, tick, agent_id, new_volatility, price_change_signal) ==
    Envelope(id, tick, agent_id, "update_market_data", "public",
             [new_volatility |-> new_volatility,
              price_change_signal |-> price_change_signal])

PayMarginCall(id, tick, agent_id, amount, margin_call_id) ==
    Envelope(id, tick, agent_id, "pay_margin_call", "private",
             [amount |-> amount, margin_call_id |-> margin_call_id])

SellAssetStandard(id, tick, agent_id, asset_type, amount) ==
    Envelope(id, tick, agent_id, "sell_asset_standard", "public",
             [asset_type |-> asset_type, amount |-> amount, order_type |-> "market"])

Borrow(id, tick, agent_id, target_agent_id, amount) ==
    Envelope(id, tick, agent_id, "borrow", "private",
             [amount |-> amount, target_agent_id |-> target_agent_id])

ReduceExposure(id, tick, agent_id, target_neighbor_id, amount) ==
    Envelope(id, tick, agent_id, "reduce_exposure", "private",
             [target_neighbor_id |-> target_neighbor_id, amount |-> amount])

HoardLiquidity(id, tick, agent_id, estimated_recovery) ==
    Envelope(id, tick, agent_id, "hoard_liquidity", "private",
             [estimated_recovery |-> estimated_recovery])

ProvideInterbankCredit(id, tick, agent_id, borrower_bank_id, principal, interest_rate, maturity_tick) ==
    Envelope(id, tick, agent_id, "PROVIDE_INTERBANK_CREDIT", "private",
             [borrower_bank_id |-> borrower_bank_id, principal |-> principal,
              interest_rate |-> interest_rate, maturity_tick |-> maturity_tick])

RepayInterbankLoan(id, tick, agent_id, loan_id, principal, interest) ==
    Envelope(id, tick, agent_id, "REPAY_INTERBANK_LOAN", "public",
             [loan_id |-> loan_id, principal |-> principal, interest |-> interest])

FireSaleAsset(id, tick, agent_id, asset_id, quantity, max_acceptable_discount) ==
    Envelope(id, tick, agent_id, "FIRE_SALE_ASSET", "public",
             [exchange_id |-> "exchange_main", asset_id |-> asset_id,
              quantity |-> quantity,
              max_acceptable_discount |-> max_acceptable_discount])

DeclareDefault(id, tick, agent_id) ==
    Envelope(id, tick, agent_id, "DECLARE_DEFAULT", "public",
             [reason |-> "liquidity_exhaustion"])

DepositDefaultFund(id, tick, agent_id, amount) ==
    Envelope(id, tick, agent_id, "DEPOSIT_DEFAULT_FUND", "public",
             [amount |-> amount])

----------------------------------------------------------------------------
(* Configuration (model.p) with the defaults of the code                   *)

StressThreshold == 3000
MinLiquidity == 2000
StepOperatingCost == 200
DefaultFundRate == 50
MarketDepth == 200000
BaseVolatility == 2000
CcpInitialDefaultFund == 10000
CcpBaseMargin == 500
CcpMarginSensitivity == 100
CcpSafeMultiplier == 10
MarginCallThreshold == 500

\* random.choice([5, 10, 15]) for a tenor or a maturity offset
TenorChoices == {5, 10, 15}

----------------------------------------------------------------------------
(* Bank: observation, risk and choice of action                            *)

TotalExposure(bank) == SumMap(bank.exposure_to_neighbors)

TotalAssets(bank) == bank.assets.liquid_bond + bank.assets.illiquid_asset

\* mutant: the neighbours are not filtered on their defaulted flag
AllNeighbors(w, net, b) == net[b]

\* BankAgent._live_neighbors
LiveNeighbors(w, net, b) == {n \in net[b] : ~w.banks[n].defaulted}

RECURSIVE MarginDue(_)
MarginDue(calls) ==
    IF calls = <<>> THEN 0
    ELSE Get(Get(Head(calls), "payload", Head(calls)), "margin_amount", 0)
         + MarginDue(Tail(calls))

\* principal * (1 + interest_rate), the rate in 1e-4
WithInterest(principal, rate) == principal + (principal * rate) \div 10000

RECURSIVE RepaymentDue(_)
RepaymentDue(loans) ==
    IF loans = <<>> THEN 0
    ELSE WithInterest(Head(loans).principal, Head(loans).interest_rate)
         + RepaymentDue(Tail(loans))

\* get_full_snapshot()["margin_rate"] as _extract_observation reads it into
\* obs.system_margin_rate: system:margin_rate, 0.0 when the key is absent
SystemMarginRate(r) == Get(r.system, "margin_rate", 0)

\* the part of _extract_observation that the decision uses
ExtractObservation(bank, tick) ==
    LET due == SelectSeq(bank.interbank_loans_received,
                         LAMBDA loan : loan.maturity_tick <= tick + 1)
    IN  [own_total_exposure |-> TotalExposure(bank),
         own_total_assets |-> TotalAssets(bank),
         pending_margin_calls |-> bank.pending_margin_calls,
         total_margin_due |-> MarginDue(bank.pending_margin_calls),
         loans_due |-> due,
         total_repayment_due |-> RepaymentDue(due),
         public_intents |-> bank.public_intents_received,
         private_intents |-> bank.private_intents_received]

\* _compute_risk; bel holds the belief means: pd and sl in thousandths,
\* me in cents, vol in 1e-4
ComputeRisk(bank, obs, bel, min_liq) ==
    [expected_loss |-> Frac(Frac(TotalExposure(bank), bel.pd), 600),
     liquidity_shortfall |-> Max(0, min_liq + bel.me - bank.liquidity),
     stress_level |-> bel.sl,
     margin_estimate |-> bel.me,
     volatility |-> bel.vol,
     margin_urgency |->
         IF bank.pending_margin_calls # <<>>
         THEN (obs.total_margin_due * 1000) \div Max(bank.liquidity, 100)
         ELSE 0,
     repay_urgency |->
         IF obs.loans_due # <<>>
         THEN (obs.total_repayment_due * 1000) \div Max(bank.liquidity, 100)
         ELSE 0]

\* the order in which _choose_action fills the utilities dict
ActionOrder ==
    <<"REPAY_INTERBANK_LOAN", "DECLARE_DEFAULT", "DEPOSIT_DEFAULT_FUND",
      "PROVIDE_INTERBANK_CREDIT", "FIRE_SALE_ASSET", "pay_margin_call",
      "sell_asset_standard", "hoard_liquidity", "reduce_exposure", "borrow",
      "route_otc_proposal">>

\* the value of a failed guard
NegInf == -999000

\* mutant: the fire sale is scored whatever the holdings and the pressure
FireSaleGuardOpen(bank, risk) == TRUE

\* the guards of the utilities
FireSaleGuard(bank, risk) ==
    /\ TotalAssets(bank) > 0
    /\ \/ risk.liquidity_shortfall > 500
       \/ risk.margin_urgency > 500
       \/ bank.liquidity < 1500

DeclareDefaultGuard(bank) == bank.liquidity < 500 /\ bank.capital < 1000

DepositGuard(bank, risk) ==
    bank.liquidity > 8000 /\ risk.stress_level < 200 /\ ~bank.stressed

\* the utilities dict of _choose_action, in thousandths
Utilities(bank, obs, risk, live_nbrs) ==
    LET liq == bank.liquidity
        el == risk.expected_loss
        ls == risk.liquidity_shortfall
        sl == risk.stress_level
        me == risk.margin_estimate
        vol == risk.volatility
        mu == risk.margin_urgency
        ru == risk.repay_urgency
        recovery_prob == Max(0, liq \div 5 + bank.capital \div 10)
    IN  [a \in {ActionOrder[i] : i \in 1 .. Len(ActionOrder)} |->
         CASE a = "REPAY_INTERBANK_LOAN" ->
                IF obs.loans_due # <<>> THEN 60000 + 20 * ru ELSE NegInf
           [] a = "DECLARE_DEFAULT" ->
                IF DeclareDefaultGuard(bank)
                THEN Max(0, (1000 - recovery_prob) * 30 - 15000) ELSE NegInf
           [] a = "DEPOSIT_DEFAULT_FUND" ->
                IF DepositGuard(bank, risk) THEN 5000 + (liq - 8000) ELSE NegInf
           [] a = "PROVIDE_INTERBANK_CREDIT" ->
                IF live_nbrs # {} /\ liq > 10000
                THEN Max(0, (liq - 10000) * 3 - el * 5 - sl * 5) ELSE NegInf
           [] a = "FIRE_SALE_ASSET" ->
                IF FireSaleGuard(bank, risk)
                THEN ls * 50 + 4 * mu + Max(0, (2000 - liq) * 8) + vol \div 5
                ELSE NegInf
           [] a = "pay_margin_call" ->
                IF bank.pending_margin_calls # <<>> THEN 50000 + 20 * mu ELSE NegInf
           [] a = "sell_asset_standard" ->
                IF bank.assets.liquid_bond > 0
                THEN ls * 30 + vol \div 5 + (mu * 3) \div 2 + Max(0, (3000 - liq) * 3)
                ELSE NegInf
           [] a = "hoard_liquidity" -> ls * 20 + 3 * sl + vol \div 10
           [] a = "reduce_exposure" -> el * 15 + me * 10 + vol \div 20
           [] a = "borrow" ->
                IF bank.capital > Max(liq, 100) THEN Max(0, (4000 - liq) * 5) ELSE 0
           [] OTHER ->
                Max(0, (liq - 8000) * 4 - el * 10 - sl * 10 - vol \div 2)]

\* mutant: the maximum is taken over the batch-1 actions only
BestOfBatchOne(u) ==
    LET i == CHOOSE k \in 6 .. Len(ActionOrder) :
                 /\ \A j \in 6 .. Len(ActionOrder) : u[ActionOrder[j]] <= u[ActionOrder[k]]
                 /\ \A j \in 6 .. (k - 1) : u[ActionOrder[j]] < u[ActionOrder[k]]
    IN  ActionOrder[i]

\* max(utilities, key=utilities.get): the first key, in insertion order,
\* whose utility is the maximum
Best(u) ==
    LET i == CHOOSE k \in 1 .. Len(ActionOrder) :
                 /\ \A j \in 1 .. Len(ActionOrder) : u[ActionOrder[j]] <= u[ActionOrder[k]]
                 /\ \A j \in 1 .. (k - 1) : u[ActionOrder[j]] < u[ActionOrder[k]]
    IN  ActionOrder[i]

\* _choose_action.  inp holds the belief means (bel) and the draws of the
\* step: the neighbour picked (nbr), the key of the riskiest exposure
\* (riskiest) and the tenor
ChooseAction(bank, b, obs, risk, tick, live_nbrs, id, inp) ==
    LET agent_id == BankId(b)
        ls == risk.liquidity_shortfall
        vol == risk.volatility
        best == Best(Utilities(bank, obs, risk, live_nbrs))
        liquid_assets == bank.assets.liquid_bond
    IN  IF best = "REPAY_INTERBANK_LOAN" /\ obs.loans_due # <<>> THEN
            LET loan == obs.loans_due[1]
            IN  RepayInterbankLoan(id, tick, agent_id, loan.loan_id, loan.principal,
                                   RoundTo(loan.principal * loan.interest_rate, 10000) \div 10000)
        ELSE IF best = "DECLARE_DEFAULT" THEN
            DeclareDefault(id, tick, agent_id)
        ELSE IF best = "DEPOSIT_DEFAULT_FUND" THEN
            DepositDefaultFund(id, tick, agent_id,
                Max(Min(Frac(bank.liquidity, DefaultFundRate), bank.liquidity - 6000), 0))
        ELSE IF best = "PROVIDE_INTERBANK_CREDIT" /\ live_nbrs # {} THEN
            ProvideInterbankCredit(id, tick, agent_id, BankId(inp.nbr),
                Min(Frac(bank.liquidity, 100), 2000),
                300 + RoundTo(vol * 4, 100) \div 100,
                tick + inp.tenor)
        ELSE IF best = "FIRE_SALE_ASSET" THEN
            LET asset_id == IF bank.assets.liquid_bond >= bank.assets.illiquid_asset
                            THEN "liquid_bond" ELSE "illiquid_asset"
                qty == Min(bank.assets[asset_id],
                           Max(10000, ls * 30 + (vol * 5) \div 2))
            IN  FireSaleAsset(id, tick, agent_id, asset_id, Round2(qty),
                              RoundTo(Min(4000, 1000 + vol \div 2), 100))
        ELSE IF best = "pay_margin_call" /\ bank.pending_margin_calls # <<>> THEN
            LET call == bank.pending_margin_calls[1]
                payload == Get(call, "payload", call)
            IN  PayMarginCall(id, tick, agent_id,
                    Min(Get(payload, "margin_amount", 0), Frac(bank.liquidity, 900)),
                    Get(call, "intent_id", -1))
        ELSE IF best = "sell_asset_standard" THEN
            SellAssetStandard(id, tick, agent_id, "liquid_bond",
                Min(liquid_assets, Max(10000, ls * 20 + vol * 2)))
        ELSE IF best = "route_otc_proposal" /\ live_nbrs # {} THEN
            RouteOtcProposal(id, tick, agent_id, BankId(inp.nbr),
                Min(Frac(bank.liquidity, 100), 1500),
                200 + RoundTo(vol * 5, 100) \div 100,
                inp.tenor)
        ELSE IF best = "borrow" /\ live_nbrs # {} THEN
            Borrow(id, tick, agent_id, BankId(inp.nbr),
                   Min(1000, Max(0, 4000 - bank.liquidity)))
        ELSE IF best = "reduce_exposure" /\ DOMAIN bank.exposure_to_neighbors # {} THEN
            ReduceExposure(id, tick, agent_id, inp.riskiest,
                           Frac(bank.exposure_to_neighbors[inp.riskiest], 200))
        ELSE
            HoardLiquidity(id, tick, agent_id, Frac(TotalExposure(bank), 50))

----------------------------------------------------------------------------
(* CCP default waterfall and the bank's default routine                    *)

LiveBanksExcept(w, d) == {x \in Banks : ~w.banks[x].defaulted /\ x # d}

\* mutant: the whole share is taken from the survivor's capital
MutualiseFromCapital(w, survivors, share) ==
    [w EXCEPT !.banks = [x \in Banks |->
        IF x \in survivors
        THEN [w.banks[x] EXCEPT !.capital = @ - share]
        ELSE w.banks[x]]]

\* bank.capital -= share * 0.5; bank.liquidity -= share * 0.5 for each survivor
Mutualise(w, survivors, share) ==
    [w EXCEPT !.banks = [x \in Banks |->
        IF x \in survivors
        THEN [w.banks[x] EXCEPT !.capital = @ - Frac(share, 500),
                                !.liquidity = @ - Frac(share, 500)]
        ELSE w.banks[x]]]

\* mutant: the fund absorbs the whole loss, whatever it holds
FundAbsorptionUncapped(fund, uncovered) == uncovered

\* step 1 of the waterfall: what the fund absorbs
FundAbsorption(fund, uncovered) == Min(fund, uncovered)

\* CCPAgent.handle_bank_default
HandleBankDefault(w, d) ==
    LET others == LiveBanksExcept(w, d)
        loss == [x \in others |->
                    LET exposure == Get(w.banks[x].exposure_to_neighbors, d, 0)
                    IN  IF exposure > 0 THEN Frac(exposure, 600) ELSE 0]
        total_uncovered == SumSet(loss, others)
        fund_absorption == FundAbsorption(w.ccp.default_fund, total_uncovered)
        remaining_loss == total_uncovered - fund_absorption
        w1 == [w EXCEPT !.ccp.default_fund = @ - fund_absorption,
                        !.aux.absorbed = @ + fund_absorption,
                        !.aux.waterfalls[d] = @ + 1]
    IN  IF remaining_loss > 0 /\ others # {}
        THEN Mutualise(w1, others, remaining_loss \div Cardinality(others))
        ELSE w1

\* CCPAgent.accept_default_fund_deposit
AcceptDefaultFundDeposit(w, amount) ==
    [w EXCEPT !.ccp.default_fund = @ + amount,
              !.aux.deposits = @ + amount]

\* the contagion loop of _default: every non-defaulted bank that is a key of
\* the defaulter's exposure map loses 0.3 of that entry from capital and
\* 0.15 of the loss from liquidity
Contagion(w, d) ==
    LET exp == w.banks[d].exposure_to_neighbors
    IN  [w EXCEPT !.banks = [x \in Banks |->
            IF x \in DOMAIN exp /\ ~w.banks[x].defaulted
            THEN [w.banks[x] EXCEPT !.capital = @ - Frac(exp[x], 300),
                                    !.liquidity = @ - Frac(Frac(exp[x], 300), 150)]
            ELSE w.banks[x]]]

\* mutant: a default that forgets to clear the exposure map
ZeroedKeepingExposures(bank) ==
    [bank EXCEPT !.liquidity = 0,
                 !.capital = 0,
                 !.assets = [k \in DOMAIN bank.assets |-> 0],
                 !.otc_loans = <<>>,
                 !.interbank_loans_given = <<>>]

\* the balance sheet that _default leaves
Zeroed(bank) ==
    [bank EXCEPT !.exposure_to_neighbors = EmptyMap,
                 !.liquidity = 0,
                 !.capital = 0,
                 !.assets = [k \in DOMAIN bank.assets |-> 0],
                 !.otc_loans = <<>>,
                 !.interbank_loans_given = <<>>]

\* BankAgent._default
Default(w, d) ==
    LET w1 == [w EXCEPT !.banks[d].defaulted = TRUE, !.banks[d].stressed = TRUE]
        w2 == HandleBankDefault(w1, d)
        w3 == Contagion(w2, d)
    IN  [w3 EXCEPT !.banks[d] = Zeroed(@)]

----------------------------------------------------------------------------
(* Execution of an intent on the emitter and the counterparty              *)

WithoutLoan(loans, loan_id) == SelectSeq(loans, LAMBDA l : l.loan_id # loan_id)

\* _exec_otc_proposal
ExecOtcProposal(w, b, intent) ==
    LET content == Get(intent.payload, "encrypted_content", EmptyMap)
        amount == Get(content, "amount", 0)
        target_id_str == Get(intent.payload, "target_agent_id", "")
        target == ResolveTargetByStr(target_id_str)
    IN  IF amount <= 0 \/ target_id_str = "" \/ target = -1 THEN w
        ELSE LET w1 == [w EXCEPT !.banks[b].liquidity = @ - amount]
                 w2 == [w1 EXCEPT !.banks[target].liquidity = @ + amount]
             IN  [w2 EXCEPT
                    !.banks[b].exposure_to_neighbors =
                        Put(@, target, Get(@, target, 0) + amount),
                    !.banks[b].otc_loans = Append(@,
                        [loan_id |-> intent.intent_id,
                         target |-> target_id_str,
                         amount |-> amount,
                         rate |-> Get(content, "interest_rate", 350),
                         remaining_ticks |-> Get(content, "tenor_ticks", 10)])]

\* mutant: the borrower is credited with the amount it asked for, the
\* lender debited with the amount capped at a tenth of its liquidity
ExecBorrowCreditingAsked(w, b, intent) ==
    LET lender == ResolveTargetByStr(Get(intent.payload, "target_agent_id", ""))
        amount == IF lender = -1 THEN 0
                  ELSE Min(Get(intent.payload, "amount", 0),
                           Frac(w.banks[lender].liquidity, 100))
    IN  IF lender = -1 \/ amount <= 100
        THEN [w EXCEPT !.banks[b].missed_payment = TRUE]
        ELSE LET w1 == [w EXCEPT !.banks[lender].liquidity = @ - amount]
                 w2 == [w1 EXCEPT !.banks[b].liquidity =
                                      @ + Get(intent.payload, "amount", 0)]
             IN  [w2 EXCEPT !.banks[lender].exposure_to_neighbors =
                                Put(@, b, Get(@, b, 0) + amount),
                            !.aux.borrowed = @ + 1]

\* _exec_borrow
ExecBorrow(w, b, intent) ==
    LET lender == ResolveTargetByStr(Get(intent.payload, "target_agent_id", ""))
        amount == IF lender = -1 THEN 0
                  ELSE Min(Get(intent.payload, "amount", 0),
                           Frac(w.banks[lender].liquidity, 100))
    IN  IF lender = -1 \/ amount <= 100
        THEN [w EXCEPT !.banks[b].missed_payment = TRUE]
        ELSE LET w1 == [w EXCEPT !.banks[lender].liquidity = @ - amount]
                 w2 == [w1 EXCEPT !.banks[b].liquidity = @ + amount]
             IN  [w2 EXCEPT !.banks[lender].exposure_to_neighbors =
                                Put(@, b, Get(@, b, 0) + amount),
                            !.aux.borrowed = @ + 1]

\* _exec_reduce_exposure; the fallback key is the riskiest by belief
ExecReduceExposure(w, b, intent, riskiest) ==
    LET exp == w.banks[b].exposure_to_neighbors
        target_nid == Get(intent.payload, "target_neighbor_id", -1)
        amount == Get(intent.payload, "amount", 0)
        key == IF target_nid \in DOMAIN exp THEN target_nid ELSE riskiest
    IN  IF DOMAIN exp = {} THEN w
        ELSE LET reduction == Min(amount, exp[key])
             IN  [w EXCEPT !.banks[b].exposure_to_neighbors[key] = @ - reduction,
                           !.banks[b].liquidity = @ + Frac(reduction, 500)]

\* _exec_hoard
ExecHoard(w, b) ==
    LET exp == w.banks[b].exposure_to_neighbors
        cut == [n \in DOMAIN exp |-> Frac(exp[n], 50)]
    IN  [w EXCEPT !.banks[b].exposure_to_neighbors = [n \in DOMAIN exp |-> exp[n] - cut[n]],
                  !.banks[b].liquidity =
                      @ + SumSet([n \in DOMAIN exp |-> Frac(cut[n], 300)], DOMAIN exp)]

\* _exec_pay_margin_call
ExecPayMarginCall(w, b, intent) ==
    LET asked == Get(intent.payload, "amount", 0)
        margin_call_id == Get(intent.payload, "margin_call_id", -1)
        liq == w.banks[b].liquidity
        amount == IF asked > liq THEN Frac(liq, 900) ELSE asked
    IN  IF asked <= 0 THEN [w EXCEPT !.banks[b].missed_payment = TRUE]
        ELSE [w EXCEPT
                !.banks[b].liquidity = @ - amount,
                !.banks[b].capital = @ - Frac(amount, 100),
                !.banks[b].pending_margin_calls =
                    SelectSeq(@, LAMBDA c : Get(c, "intent_id", -2) # margin_call_id)]

\* proceeds in cents of a quantity (thousandths) at a price (1e-4)
Proceeds(quantity, price) == (quantity * price) \div 100000

\* _exec_sell_asset and _exec_fire_sale_asset: the sale through the pricing
\* engine, at the tick of the scheduler
ExecSale(w, b, asset, quantity, vol, is_fire_sale, tick) ==
    LET held == Get(w.banks[b].assets, asset, 0)
        actual_sell == Min(quantity, held)
        res == ComputeSalePrice(w.redis, tick, asset, actual_sell, vol, is_fire_sale)
    IN  IF actual_sell <= 0 THEN w
        ELSE [w EXCEPT
                !.redis = res.redis,
                !.banks[b].assets[asset] = held - actual_sell,
                !.banks[b].liquidity =
                    @ + Proceeds(actual_sell, res.pricing.price_per_unit),
                !.banks[b].last_intent.payload =
                    [k \in (DOMAIN @) \cup {"execution_price", "market_impact",
                                            "cumulative_volume"} |->
                        CASE k = "execution_price" -> res.pricing.price_per_unit
                          [] k = "market_impact" -> res.pricing.impact_discount
                          [] k = "cumulative_volume" -> res.pricing.cumulative_volume
                          [] OTHER -> @[k]],
                !.aux.sales = Append(@,
                    [tick |-> tick, asset |-> asset, seller |-> b,
                     quantity |-> actual_sell, cum_before |-> res.cum_before,
                     cumulative_volume |-> res.pricing.cumulative_volume])]

ExecSellAsset(w, b, intent, vol, tick) ==
    ExecSale(w, b, Get(intent.payload, "asset_type", "liquid_bond"),
             Get(intent.payload, "amount", 0), vol, FALSE, tick)

ExecFireSaleAsset(w, b, intent, vol, tick) ==
    ExecSale(w, b, Get(intent.payload, "asset_id", "liquid_bond"),
             Get(intent.payload, "quantity", 0), vol, TRUE, tick)

\* _exec_provide_interbank_credit
ExecProvideInterbankCredit(w, b, intent, tick) ==
    LET p == intent.payload
        borrower_str == Get(p, "borrower_bank_id", "")
        asked == Get(p, "principal", 0)
        rate == Get(p, "interest_rate", 500)
        mat_tick == Get(p, "maturity_tick", tick + 10)
        borrower == ResolveTargetByStr(borrower_str)
        cap == Frac(w.banks[b].liquidity, 500)
        principal == IF asked > cap THEN cap ELSE asked
        loan_record == [loan_id |-> intent.intent_id,
                        borrower |-> borrower_str,
                        lender |-> BankId(b),
                        principal |-> principal,
                        interest_rate |-> rate,
                        maturity_tick |-> mat_tick]
    IN  IF asked <= 0 \/ borrower_str = "" THEN w
        ELSE IF borrower = -1 THEN w
        ELSE IF w.banks[borrower].defaulted THEN w
        ELSE LET w1 == [w EXCEPT
                          !.banks[b].liquidity = @ - principal,
                          !.banks[b].exposure_to_neighbors =
                              Put(@, borrower, Get(@, borrower, 0) + principal),
                          !.banks[b].interbank_loans_given = Append(@, loan_record)]
             IN  [w1 EXCEPT
                    !.banks[borrower].liquidity = @ + principal,
                    !.banks[borrower].interbank_loans_received = Append(@, loan_record)]

\* mutant: the lender is credited but keeps the loan on its given list
SettleAtLenderKeepingLoan(w, lender, b, actual, principal, loan_id) ==
    IF lender = -1 THEN w
    ELSE IF w.banks[lender].defaulted THEN w
    ELSE [w EXCEPT
            !.banks[lender].liquidity = @ + actual,
            !.banks[lender].exposure_to_neighbors =
                Put(@, b, Max(0, Get(@, b, 0) - principal))]

\* the lender's side of a settlement: credit, exposure cut, loan removed
SettleAtLender(w, lender, b, actual, principal, loan_id) ==
    IF lender = -1 THEN w
    ELSE IF w.banks[lender].defaulted THEN w
    ELSE [w EXCEPT
            !.banks[lender].liquidity = @ + actual,
            !.banks[lender].exposure_to_neighbors =
                Put(@, b, Max(0, Get(@, b, 0) - principal)),
            !.banks[lender].interbank_loans_given = WithoutLoan(@, loan_id)]

\* _exec_repay_interbank_loan
ExecRepayInterbankLoan(w, b, intent) ==
    LET p == intent.payload
        loan_id == Get(p, "loan_id", -1)
        principal == Get(p, "principal", 0)
        interest == Get(p, "interest", 0)
        total == principal + interest
        matching == SelectSeq(w.banks[b].interbank_loans_received,
                              LAMBDA l : l.loan_id = loan_id)
    IN  IF total <= 0 \/ loan_id = -1 THEN w
        ELSE IF matching = <<>> THEN w
        ELSE LET loan == matching[1]
                 lender == ResolveTargetByStr(loan.lender)
                 partial == total > w.banks[b].liquidity
                 actual == IF partial THEN Frac(w.banks[b].liquidity, 900) ELSE total
                 w1 == [w EXCEPT !.banks[b].liquidity = @ - actual,
                                 !.banks[b].missed_payment = IF partial THEN TRUE ELSE @]
                 w2 == SettleAtLender(w1, lender, b, actual, principal, loan_id)
             IN  [w2 EXCEPT !.banks[b].interbank_loans_received = WithoutLoan(@, loan_id),
                            !.aux.repaid = @ + 1]

\* mutant: the deposit is taken whole, without the cap of half the liquidity
ExecDepositUncapped(w, b, intent) ==
    LET amount == Get(intent.payload, "amount", 0)
    IN  IF amount <= 0 THEN w
        ELSE AcceptDefaultFundDeposit(
                [w EXCEPT !.banks[b].liquidity = @ - amount,
                          !.banks[b].default_fund_contribution = @ + amount],
                amount)

\* _exec_deposit_default_fund
ExecDepositDefaultFund(w, b, intent) ==
    LET amount == Get(intent.payload, "amount", 0)
        actual == Min(amount, Frac(w.banks[b].liquidity, 500))
    IN  IF amount <= 0 THEN w
        ELSE AcceptDefaultFundDeposit(
                [w EXCEPT !.banks[b].liquidity = @ - actual,
                          !.banks[b].default_fund_contribution = @ + actual],
                actual)

\* _execute_intent: operating cost, passive income, then the dispatch
ExecuteIntent(w, b, intent, inp, tick) ==
    LET bank == w.banks[b]
        income == Frac(bank.capital, 2) + bank.assets.liquid_bond \div 10000
        w1 == [w EXCEPT !.banks[b].liquidity = @ - StepOperatingCost + income,
                        !.banks[b].missed_payment = FALSE]
        action == intent.action_type
    IN  CASE action = "route_otc_proposal" -> ExecOtcProposal(w1, b, intent)
          [] action = "borrow" -> ExecBorrow(w1, b, intent)
          [] action = "reduce_exposure" -> ExecReduceExposure(w1, b, intent, inp.riskiest)
          [] action = "hoard_liquidity" -> ExecHoard(w1, b)
          [] action = "pay_margin_call" -> ExecPayMarginCall(w1, b, intent)
          [] action = "sell_asset_standard" -> ExecSellAsset(w1, b, intent, inp.bel.vol, tick)
          [] action = "PROVIDE_INTERBANK_CREDIT" -> ExecProvideInterbankCredit(w1, b, intent, tick)
          [] action = "REPAY_INTERBANK_LOAN" -> ExecRepayInterbankLoan(w1, b, intent)
          [] action = "FIRE_SALE_ASSET" -> ExecFireSaleAsset(w1, b, intent, inp.bel.vol, tick)
          [] action = "DECLARE_DEFAULT" -> Default(w1, b)
          [] action = "DEPOSIT_DEFAULT_FUND" -> ExecDepositDefaultFund(w1, b, intent)
          [] OTHER -> w1

----------------------------------------------------------------------------
(* Loan ageing                                                             *)

\* mutant: the exposure cut of a matured OTC loan without its floor at 0
CollectOtcUnclamped(w, b, loan) ==
    LET target == ResolveTargetByStr(loan.target)
    IN  IF target = -1 THEN w
        ELSE [w EXCEPT !.banks[b].exposure_to_neighbors =
                            Put(@, target, Get(@, target, 0) - loan.amount),
                       !.aux.matured = @ + 1]

\* one matured OTC loan: collect from the target, then cut the exposure
CollectOtc(w, b, loan) ==
    LET repayment == WithInterest(loan.amount, loan.rate)
        target == ResolveTargetByStr(loan.target)
        w1 == IF target = -1 THEN w
              ELSE IF w.banks[target].defaulted THEN w
              ELSE IF w.banks[target].liquidity >= repayment
              THEN [[w EXCEPT !.banks[target].liquidity = @ - repayment]
                       EXCEPT !.banks[b].liquidity = @ + repayment]
              ELSE LET recovery == Frac(w.banks[target].liquidity, 500)
                   IN  [[w EXCEPT !.banks[target].liquidity = @ - recovery]
                           EXCEPT !.banks[b].liquidity = @ + recovery,
                                  !.banks[b].missed_payment = TRUE]
    IN  IF target = -1 THEN w1
        ELSE [w1 EXCEPT !.banks[b].exposure_to_neighbors =
                            Put(@, target, Max(0, Get(@, target, 0) - loan.amount)),
                        !.aux.matured = @ + 1]

RECURSIVE TickOtcFrom(_, _, _, _)
TickOtcFrom(w, b, loans, still_active) ==
    IF loans = <<>> THEN [w EXCEPT !.banks[b].otc_loans = still_active]
    ELSE LET loan == [Head(loans) EXCEPT !.remaining_ticks = @ - 1]
         IN  IF loan.remaining_ticks <= 0
             THEN TickOtcFrom(CollectOtc(w, b, loan), b, Tail(loans), still_active)
             ELSE TickOtcFrom(w, b, Tail(loans), Append(still_active, loan))

\* _tick_otc_loans
TickOtcLoans(w, b) == TickOtcFrom(w, b, w.banks[b].otc_loans, <<>>)

\* ticks past maturity before forced settlement
Grace == 2

\* mutant: a forced settlement that leaves missed_payment as it was
ForceSettleQuietly(w, b, loan) ==
    LET total == WithInterest(loan.principal, loan.interest_rate)
        actual == Min(total, Frac(w.banks[b].liquidity, 800))
        w1 == [w EXCEPT !.banks[b].liquidity = @ - actual,
                        !.aux.forced = @ + 1]
    IN  SettleAtLender(w1, ResolveTargetByStr(loan.lender), b, actual,
                       loan.principal, loan.loan_id)

\* forced settlement of one overdue loan
ForceSettle(w, b, loan) ==
    LET total == WithInterest(loan.principal, loan.interest_rate)
        actual == Min(total, Frac(w.banks[b].liquidity, 800))
        w1 == [w EXCEPT !.banks[b].liquidity = @ - actual,
                        !.banks[b].missed_payment = TRUE,
                        !.aux.forced = @ + 1]
    IN  SettleAtLender(w1, ResolveTargetByStr(loan.lender), b, actual,
                       loan.principal, loan.loan_id)

RECURSIVE TickInterbankFrom(_, _, _, _, _)
TickInterbankFrom(w, b, tick, loans, still_active) ==
    IF loans = <<>> THEN [w EXCEPT !.banks[b].interbank_loans_received = still_active]
    ELSE LET loan == Head(loans)
         IN  IF loan.maturity_tick + Grace < tick
             THEN TickInterbankFrom(ForceSettle(w, b, loan), b, tick, Tail(loans),
                                    still_active)
             ELSE TickInterbankFrom(w, b, tick, Tail(loans), Append(still_active, loan))

\* _tick_interbank_loans
TickInterbankLoans(w, b, tick) ==
    TickInterbankFrom(w, b, tick, w.banks[b].interbank_loans_received, <<>>)

----------------------------------------------------------------------------
(* The bank's step                                                         *)

IntentIds(intents) == [i \in 1 .. Len(intents) |-> intents[i].intent_id]

\* mutant: the bank reads the public stream of the current tick
PrevTickIsTick(tick) == tick

\* the tick whose public stream a bank reads at tick
PrevTick(tick) == Max(0, tick - 1)

CountAction(intents, action) ==
    Len(SelectSeq(intents, LAMBDA i : i.action_type = action))

\* _process_incoming_events (with the stream counters of step 2b)
ProcessIncomingEvents(w, b, tick) ==
    LET got == GetPendingMarginCalls(w.redis, b)
        pub == ReadPublicStream(got.redis, PrevTick(tick))
        priv == ReadPrivateStream(got.redis, BankId(b))
    IN  [w EXCEPT !.redis = priv.redis,
                  !.banks[b].pending_margin_calls = @ \o got.calls,
                  !.banks[b].public_intents_received = pub,
                  !.banks[b].private_intents_received = priv.intents,
                  !.banks[b].total_public_intents_seen = @ + Len(pub),
                  !.banks[b].total_private_intents_seen = @ + Len(priv.intents),
                  !.banks[b].total_fire_sales_seen = @ + CountAction(pub, "FIRE_SALE_ASSET"),
                  !.banks[b].total_defaults_seen = @ + CountAction(pub, "DECLARE_DEFAULT"),
                  !.aux.ingested[b] = @ \o IntentIds(got.calls)]

\* mutant: a liquidity of exactly 0 passes the check
DefaultCheckStrict(bank) == bank.liquidity < 0 \/ bank.capital <= 0

\* the end-of-step default check
DefaultCheck(bank) == bank.liquidity <= 0 \/ bank.capital <= 0

\* F(v), with v evaluated once
Once(F(_), v) == CHOOSE r \in {F(x) : x \in {v}} : TRUE

\* the post-action housekeeping of BankAgent.step: the stressed flag, then
\* the default check on the balances the step ends with
Housekeeping(w, b) ==
    LET w6 == [w EXCEPT !.banks[b].stressed = w.banks[b].liquidity < StressThreshold,
                        !.aux.at_check[b] = [liquidity |-> w.banks[b].liquidity,
                                             capital |-> w.banks[b].capital]]
    IN  IF DefaultCheck(w6.banks[b]) THEN Default(w6, b) ELSE w6

\* what _choose_action reads in its guards: the bank's own state, the
\* observation, the risk metrics and the live neighbours
DecisionContext(b, bank, obs, risk, live_nbrs) ==
    [bank |-> b,
     liquidity |-> bank.liquidity,
     capital |-> bank.capital,
     stressed |-> bank.stressed,
     total_assets |-> bank.assets.liquid_bond + bank.assets.illiquid_asset,
     liquid_bond |-> bank.assets.liquid_bond,
     pending |-> Len(bank.pending_margin_calls),
     loans_due |-> Len(obs.loans_due),
     shortfall |-> risk.liquidity_shortfall,
     margin_urgency |-> risk.margin_urgency,
     stress_level |-> risk.stress_level,
     live_nbrs |-> Cardinality(live_nbrs),
     exposures |-> Cardinality(DOMAIN bank.exposure_to_neighbors),
     utilities |-> Utilities(bank, obs, risk, live_nbrs)]

\* BankAgent.step for a bank that is not defaulted
StepLive(w, net, b, tick, inp) ==
    LET w1 == ProcessIncomingEvents(w, b, tick)
        bank == w1.banks[b]
        obs == ExtractObservation(bank, tick)
        risk == ComputeRisk(bank, obs, inp.bel, w.ccp.p.min_liquidity)
        intent == ChooseAction(bank, b, obs, risk, tick, LiveNeighbors(w1, net, b),
                               w1.aux.next_id, inp)
        w2 == [w1 EXCEPT !.banks[b].last_intent = intent,
                         !.aux.next_id = @ + 1,
                         !.aux.stepped[b] = tick,
                         !.aux.seen_rate[b] = SystemMarginRate(w1.redis),
                         !.aux.emission = Append(@, intent.intent_id),
                         !.aux.decided =
                             DecisionContext(b, bank, obs, risk, LiveNeighbors(w1, net, b)),
                         !.redis = RouteIntent(@, intent)]
        w3x == ExecuteIntent(w2, b, intent, inp, tick)
        \* intent_log holds the object that last_intent names
        w3 == [w3x EXCEPT !.banks[b].intent_log = Append(@, w3x.banks[b].last_intent)]
        w4 == TickOtcLoans(w3, b)
        w5 == TickInterbankLoans(w4, b, tick)
    IN  Once(LAMBDA x : Housekeeping(x, b), w5)

\* mutant: the step without its guard on the defaulted flag
StepUnguarded(w, net, b, tick, inp) == StepLive(w, net, b, tick, inp)

\* BankAgent.step
Step(w, net, b, tick, inp) ==
    IF w.banks[b].defaulted THEN w ELSE StepLive(w, net, b, tick, inp)

----------------------------------------------------------------------------
(* The CCP's step                                                          *)

LiveBanks(w) == {x \in Banks : ~w.banks[x].defaulted}

\* _observe_system
ObserveSystem(w) ==
    LET live == LiveBanks(w)
        fire == [x \in live |->
                    IF w.banks[x].last_intent.action_type = "FIRE_SALE_ASSET"
                    THEN Get(w.banks[x].last_intent.payload, "quantity", 0) ELSE 0]
    IN  [w EXCEPT
            !.ccp.total_exposure =
                SumSet([x \in live |-> TotalExposure(w.banks[x])], live),
            !.ccp.fire_sale_volume = SumSet(fire, live),
            !.ccp.num_defaults_this_tick = Cardinality(Banks \ live)]

\* the clamp of the margin rate to [0.02, 0.30]
ClampRate(rate) == Max(200, Min(3000, rate))

\* _update_margin_rate
UpdateMarginRate(c, volatility) ==
    LET plain == c.base_margin + (volatility * c.margin_sensitivity) \div 10000
        rate == IF c.panic_mode THEN Frac(plain, 1500) ELSE plain
    IN  [c EXCEPT !.current_margin_rate = ClampRate(rate)]

\* mutant: the exposure is compared with the fund itself
PanicTestFundOnly(c) == c.total_exposure > c.default_fund

\* the panic test: total exposure above the safe limit
PanicTest(c) == c.total_exposure > c.default_fund * c.safe_multiplier

\* mutant: the threshold is tightened in every step that finds panic
CheckPanicModeTighteningOn(c) ==
    LET was_panic == c.panic_mode
        now == PanicTest(c)
    IN  [c EXCEPT
            !.panic_mode = now,
            !.margin_call_threshold =
                IF now THEN Max(200, Frac(@, 600))
                ELSE IF ~now /\ was_panic
                     THEN Min(c.p.margin_call_threshold, Frac(@, 1200))
                ELSE @]

\* _check_panic_mode
CheckPanicMode(c) ==
    LET was_panic == c.panic_mode
        now == PanicTest(c)
    IN  [c EXCEPT
            !.panic_mode = now,
            !.margin_call_threshold =
                IF now /\ ~was_panic THEN Max(200, Frac(@, 600))
                ELSE IF ~now /\ was_panic
                     THEN Min(c.p.margin_call_threshold, Frac(@, 1200))
                ELSE @]

\* the risk score of one bank, in 1e-4
RiskScore(bank) ==
    LET exp_ratio == (TotalExposure(bank) * 10000) \div Max(bank.capital, 100)
        liq_score == Max(0, 10000 - (Max(bank.liquidity, 0) * 10000)
                                        \div Max(StressThreshold, 100))
        stress_flag == IF bank.stressed THEN 10000 ELSE 0
        score == Min(exp_ratio, 30000) \div 6 + Frac(liq_score, 300)
                 + Frac(stress_flag, 200)
    IN  IF bank.defaulted THEN 10000 ELSE Min(10000, score)

\* _compute_member_risk_scores
ComputeMemberRiskScores(w) ==
    [w EXCEPT !.ccp.member_risk_scores = [x \in Banks |-> RiskScore(w.banks[x])]]

\* the test of _issue_margin_calls: exposure / max(capital, 1) > threshold
\* mutant: the ratio is taken on the liquidity instead of the capital
CallDueOnLiquidity(bank, threshold) ==
    TotalExposure(bank) * 1000 > threshold * Max(bank.liquidity, 100)

CallDue(bank, threshold) ==
    TotalExposure(bank) * 1000 > threshold * Max(bank.capital, 100)

\* the amount of a call: exposure * rate * (1 + 0.5 risk_score)
CallAmount(bank, rate, risk_score) ==
    LET plain == (TotalExposure(bank) * rate) \div 10000
    IN  plain + (plain * (risk_score \div 2)) \div 10000

RECURSIVE IssueFrom(_, _, _)
IssueFrom(w, tick, todo) ==
    IF todo = <<>> THEN w
    ELSE LET x == Head(todo)
             bank == w.banks[x]
             call == IssueMarginCall(w.aux.next_id, tick, "ccp_01", BankId(x),
                        CallAmount(bank, w.ccp.current_margin_rate,
                                   Get(w.ccp.member_risk_scores, x, 5000)),
                        tick + (IF w.ccp.panic_mode THEN 1 ELSE 2),
                        IF w.ccp.panic_mode THEN "panic_mode_breach"
                        ELSE "exposure_ratio_breach")
         IN  IF ~bank.defaulted /\ CallDue(bank, w.ccp.margin_call_threshold)
             THEN IssueFrom([w EXCEPT !.redis = PublishMarginCall(@, x, call),
                                      !.aux.next_id = @ + 1,
                                      !.aux.emitted[x] = Append(@, call.intent_id),
                                      !.aux.emission = Append(@, call.intent_id)],
                            tick, Tail(todo))
             ELSE IssueFrom(w, tick, Tail(todo))

\* _issue_margin_calls
IssueMarginCalls(w, tick) == IssueFrom(w, tick, Ascending(Banks))

\* publish_system_state: SET system:{k} for every k given
PublishSystemState(r, data) ==
    [r EXCEPT !.system = [k \in (DOMAIN @) \cup (DOMAIN data) |->
                            IF k \in DOMAIN data THEN data[k] ELSE @[k]]]

\* mutant: the CCP does not publish its rate
PublishMarginRateSkipped(w) == w

\* _publish_margin_rate; the rate is held in 1e-4, the unit of round(., 4)
PublishMarginRate(w) ==
    [w EXCEPT !.redis = PublishSystemState(@, [margin_rate |-> w.ccp.current_margin_rate])]

\* _compute_utility, in 1e-4, with the weights 0.4, 0.3, 0.2, 0.1
ComputeUtility(w) ==
    LET c == w.ccp
        safe_limit == c.default_fund * c.safe_multiplier
        fund_ratio == Min((c.default_fund * 10000) \div Max(safe_limit, 100), 10000)
        norm_defaults == (c.num_defaults_this_tick * 10000) \div Max(NBanks, 1)
        live == LiveBanks(w)
        total_liq == SumSet([x \in live |-> w.banks[x].liquidity], live)
        norm_fire == Min(((c.fire_sale_volume \div 10) * 10000) \div Max(total_liq, 100),
                         10000)
    IN  (IF c.panic_mode THEN 0 ELSE 4000) + Frac(fund_ratio, 300)
        - Frac(norm_defaults, 200) - Frac(norm_fire, 100)

\* _record_metrics of the CCP
CcpRecordMetrics(w, utility) ==
    [w EXCEPT !.ccp.utility_history = Append(@, utility),
              !.ccp.margin_rate_history = Append(@, w.ccp.current_margin_rate),
              !.ccp.panic_mode_history = Append(@, w.ccp.panic_mode),
              !.ccp.default_fund_history = Append(@, w.ccp.default_fund),
              !.ccp.fire_sale_history = Append(@, w.ccp.fire_sale_volume)]

\* mutant: the panic check runs before the margin rate is updated
CcpStepPanicFirst(w, tick, volatility) ==
    LET w1 == ObserveSystem(w)
        w2 == [w1 EXCEPT !.ccp = UpdateMarginRate(CheckPanicMode(@), volatility)]
        w3 == ComputeMemberRiskScores(w2)
        w4 == IssueMarginCalls(w3, tick)
        w5 == PublishMarginRate(w4)
    IN  CcpRecordMetrics(w5, ComputeUtility(w5))

\* CCPAgent.step
CcpStepOf(w, tick, volatility) ==
    LET w1 == ObserveSystem(w)
        w2 == [w1 EXCEPT !.ccp = CheckPanicMode(UpdateMarginRate(@, volatility))]
        w3 == ComputeMemberRiskScores(w2)
        w4 == IssueMarginCalls(w3, tick)
        w5 == PublishMarginRate(w4)
    IN  CcpRecordMetrics(w5, ComputeUtility(w5))

----------------------------------------------------------------------------
(* Construction (FinancialNetworkModel.setup, BankAgent.setup)             *)

\* draws of BankAgent.setup: liquidity, capital and asset holdings from the
\* configured ranges, the exposure to each neighbour from [5, 30]
Lender == [liquidity |-> 16000, capital |-> 2000, liquid_bond |-> 20000,
           illiquid_asset |-> 10000, exposure |-> 500]
Mid    == [liquidity |-> 5000, capital |-> 8000, liquid_bond |-> 20000,
           illiquid_asset |-> 10000, exposure |-> 3000]
Poor   == [liquidity |-> 300, capital |-> 500, liquid_bond |-> 30000,
           illiquid_asset |-> 20000, exposure |-> 3000]
Seller == [liquidity |-> 2000, capital |-> 2000, liquid_bond |-> 20000,
           illiquid_asset |-> 0, exposure |-> 500]
Dust   == [liquidity |-> 2000, capital |-> 2000, liquid_bond |-> 4,
           illiquid_asset |-> 0, exposure |-> 500]
Broke  == [liquidity |-> 150, capital |-> 500, liquid_bond |-> 0,
           illiquid_asset |-> 0, exposure |-> 3000]
Rich   == [liquidity |-> 9500, capital |-> 20000, liquid_bond |-> 80000,
           illiquid_asset |-> 10000, exposure |-> 500]
Banker == [liquidity |-> 11000, capital |-> 8000, liquid_bond |-> 20000,
           illiquid_asset |-> 10000, exposure |-> 500]
Needy  == [liquidity |-> 2500, capital |-> 4000, liquid_bond |-> 20000,
           illiquid_asset |-> 0, exposure |-> 500]

\* the runs explored: the draws of the banks (bank b gets draw b modulo the
\* length) and the configured ccp_initial_default_fund
Scenarios ==
    { [draws |-> <<Lender, Mid, Poor>>, fund |-> 10000],
      [draws |-> <<Seller, Dust, Poor>>, fund |-> 10000],
      [draws |-> <<Broke, Lender, Rich>>, fund |-> 500] }

\* the graphs explored: complete, and a path 0 - 1 - ... - (NBanks - 1)
CompleteGraph == [b \in Banks |-> Banks \ {b}]
PathGraph == [b \in Banks |-> {b - 1, b + 1} \cap Banks]
Networks == {CompleteGraph, PathGraph}

\* BankAgent.setup followed by init_neighbor_data
NewBank(draw, nbrs) ==
    [liquidity |-> draw.liquidity,
     capital |-> draw.capital,
     exposure_to_neighbors |-> [n \in nbrs |-> draw.exposure],
     assets |-> [liquid_bond |-> draw.liquid_bond,
                 illiquid_asset |-> draw.illiquid_asset],
     otc_loans |-> <<>>,
     interbank_loans_given |-> <<>>,
     interbank_loans_received |-> <<>>,
     default_fund_contribution |-> 0,
     pending_margin_calls |-> <<>>,
     defaulted |-> FALSE,
     stressed |-> FALSE,
     missed_payment |-> FALSE,
     last_intent |-> NoIntent,
     intent_log |-> <<>>,
     public_intents_received |-> <<>>,
     private_intents_received |-> <<>>,
     total_public_intents_seen |-> 0,
     total_private_intents_seen |-> 0,
     total_fire_sales_seen |-> 0,
     total_defaults_seen |-> 0]

\* the parameters of a run that are read after setup, with their defaults:
\* p.get("margin_call_threshold", 0.5) and p.get("min_liquidity", 20)
DefaultParams ==
    [margin_call_threshold |-> MarginCallThreshold, min_liquidity |-> MinLiquidity]

\* CCPAgent.__init__; p is the copy of the model's parameters that it keeps
NewCcp(fund) ==
    [p |-> DefaultParams,
     default_fund |-> fund,
     base_margin |-> CcpBaseMargin,
     margin_sensitivity |-> CcpMarginSensitivity,
     current_margin_rate |-> CcpBaseMargin,
     panic_mode |-> FALSE,
     safe_multiplier |-> CcpSafeMultiplier,
     total_exposure |-> 0,
     member_risk_scores |-> EmptyMap,
     fire_sale_volume |-> 0,
     num_defaults_this_tick |-> 0,
     margin_call_threshold |-> MarginCallThreshold,
     utility_history |-> <<>>,
     margin_rate_history |-> <<>>,
     panic_mode_history |-> <<>>,
     default_fund_history |-> <<>>,
     fire_sale_history |-> <<>>]

\* RedisStateManager.flush: FLUSHALL
Flushed ==
    [margin_calls |-> EmptyMap, stream_public |-> EmptyMap,
     stream_private |-> EmptyMap, intents_queue |-> <<>>, sales |-> EmptyMap,
     market |-> EmptyMap, system |-> EmptyMap, bank_state |-> EmptyMap]

\* set_market_depth
SetMarketDepth(r, depth) == [r EXCEPT !.market = Put(@, "depth", depth)]

NewMetrics ==
    [ts_defaults |-> <<>>, ts_active |-> <<>>, ts_liquidity |-> <<>>,
     ts_exposure |-> <<>>, ts_freeze_events |-> <<>>,
     ts_margin_calls_issued |-> <<>>, ts_default_fund |-> <<>>,
     ts_interbank_loans |-> <<>>]

\* the history of the run that the properties refer to
\* the context of a decision before any step has run
NoContext ==
    [bank |-> -1, liquidity |-> 0, capital |-> 0, stressed |-> FALSE, total_assets |-> 0,
     liquid_bond |-> 0, pending |-> 0, loans_due |-> 0, shortfall |-> 0,
     margin_urgency |-> 0, stress_level |-> 0, live_nbrs |-> 0, exposures |-> 0,
     utilities |-> [a \in {ActionOrder[i] : i \in 1 .. Len(ActionOrder)} |-> 0]]

NewAux(fund) ==
    [next_id |-> 1,                        \* source of intent ids (uuid4)
     initial_fund |-> fund,
     deposits |-> 0,                       \* accepted by the CCP so far
     absorbed |-> 0,                       \* absorbed by the fund so far
     waterfalls |-> [b \in Banks |-> 0],   \* handle_bank_default calls per bank
     emitted |-> [b \in Banks |-> <<>>],   \* ids of the calls issued to b
     ingested |-> [b \in Banks |-> <<>>],  \* ids of the calls b appended
     stepped |-> [b \in Banks |-> 0],      \* last tick at which b ran its step
     n_calls |-> 0,                        \* calls issued by the last ccp.step
     sales |-> <<>>,                       \* compute_sale_price calls
     borrowed |-> 0,                       \* borrows that moved money
     repaid |-> 0,                         \* repayments of interbank loans
     matured |-> 0,                        \* OTC loans collected at maturity
     forced |-> 0,                         \* forced settlements
     seen_rate |-> [b \in Banks |-> 0],    \* obs.system_margin_rate of b's last step
     emission |-> <<>>,                    \* ids of the intents built, in order
     at_check |-> [b \in Banks |->         \* b's balances at its last default check
                    [liquidity |-> 1, capital |-> 1]],
     decided |-> NoContext]                \* what the latest _choose_action saw

Draw(sc, b) == sc.draws[(b % Len(sc.draws)) + 1]

\* the main specification explores the scheduler; no concurrent callers
NoProcs == <<>>

Init ==
    \E sc \in Scenarios, net \in Networks :
        /\ t = 0
        /\ pc = "shock"
        /\ cur = 0
        /\ network = net
        /\ banks = [b \in Banks |-> NewBank(Draw(sc, b), net[b])]
        /\ ccp = NewCcp(sc.fund)
        /\ market = [current_volatility |-> BaseVolatility, price_signal |-> 0]
        /\ redis = SetMarketDepth(Flushed, MarketDepth)
        /\ metrics = NewMetrics
        /\ aux = NewAux(sc.fund)
        /\ procs = NoProcs

----------------------------------------------------------------------------
(* The scheduler (FinancialNetworkModel.step), one action per phase        *)

World == [banks |-> banks, ccp |-> ccp, redis |-> redis, aux |-> aux]

Install(w) ==
    /\ banks' = w.banks
    /\ ccp' = w.ccp
    /\ redis' = w.redis
    /\ aux' = w.aux

\* shock_intensity, in thousandths
ShockIntensity == 300

\* the effect of the shock on one bank that is hit
Shocked(bank) ==
    LET drain == Frac(bank.liquidity, ShockIntensity)
    IN  [bank EXCEPT !.liquidity = @ - drain,
                     !.capital = @ - Frac(drain, 800),
                     !.stressed = TRUE]

\* the tick counter advances, then _apply_shock: at shock_step every live
\* bank is hit or spared by its own draw of random()
ApplyShock ==
    /\ pc = "shock"
    /\ t < MaxTick
    /\ t' = t + 1
    /\ IF t' = ShockStep
       THEN \E hit \in SUBSET {b \in Banks : ~banks[b].defaulted} :
                banks' = [b \in Banks |->
                            IF b \in hit THEN Shocked(banks[b]) ELSE banks[b]]
       ELSE banks' = banks
    /\ pc' = "publish"
    /\ UNCHANGED <<cur, network, ccp, market, redis, metrics, aux, procs>>

LiveNow == {b \in Banks : ~banks[b].defaulted}

\* publish_bank_state: HSET bank:{id}:state
BankState(bank) ==
    [liquidity |-> bank.liquidity,
     capital |-> bank.capital,
     total_exposure |-> TotalExposure(bank),
     stressed |-> IF bank.stressed THEN 1 ELSE 0,
     defaulted |-> IF bank.defaulted THEN 1 ELSE 0,
     missed_payment |-> IF bank.missed_payment THEN 1 ELSE 0]

\* _publish_to_redis, on the world w at tick
PublishToRedisOf(w, tick) ==
    LET live == LiveBanks(w)
    IN  [w EXCEPT !.redis =
            [PublishSystemState(w.redis,
                [step |-> tick,
                 n_banks |-> NBanks,
                 aggregate_liq |-> SumSet([b \in live |-> w.banks[b].liquidity], live),
                 aggregate_exp |-> SumSet([b \in live |-> TotalExposure(w.banks[b])], live),
                 n_stressed |-> Cardinality({b \in live : w.banks[b].stressed}),
                 n_defaulted |-> Cardinality(Banks \ live),
                 margin_rate |-> w.ccp.current_margin_rate])
             EXCEPT !.bank_state = [b \in Banks |-> BankState(w.banks[b])]]]

\* _publish_to_redis
PublishToRedis ==
    /\ pc = "publish"
    /\ redis' = PublishToRedisOf(World, t).redis
    /\ pc' = "market"
    /\ UNCHANGED <<t, cur, network, banks, ccp, market, metrics, aux, procs>>

\* the draw of gauss(0, 0.02) for the volatility, in 1e-4
NoiseLevels == {300}

\* the draw of gauss(-0.01, 0.03) for the price signal, in 1e-4
SignalLevels == {-100}

\* the mean-reverting walk of the volatility, clamped to [0.05, 0.80]
NextVolatility(vol, noise) ==
    Max(500, Min(8000, vol + (BaseVolatility - vol) \div 10 + noise))

\* _publish_market_data: the exchange's intent, of which only the payload
\* is written, to market:latest
PublishMarketDataOf(w, tick, vol, price) ==
    LET market_intent == UpdateMarketData(w.aux.next_id, tick, "exchange_01", vol, price)
    IN  [w EXCEPT !.redis.market = Put(@, "latest", market_intent.payload),
                  !.aux.next_id = @ + 1,
                  !.aux.emission = Append(@, market_intent.intent_id)]

\* the clamp of the price signal to [-0.15, 0.15]
ClampSignal(signal) == Max(-1500, Min(1500, signal))

PublishMarketData ==
    /\ pc = "market"
    /\ \E noise \in NoiseLevels, signal \in SignalLevels :
        LET vol == NextVolatility(market.current_volatility, noise)
            price == ClampSignal(signal)
            w == PublishMarketDataOf(World, t, vol, price)
        IN  /\ market' = [current_volatility |-> vol, price_signal |-> price]
            /\ redis' = w.redis
            /\ aux' = w.aux
    /\ pc' = "ccp"
    /\ UNCHANGED <<t, cur, network, banks, ccp, metrics, procs>>

\* n_calls = self.ccp.step(tick=self.t), on the world w0
CcpStepCounted(w0, tick, volatility) ==
    LET w == CcpStepOf(w0, tick, volatility)
        issued == SumSet([b \in Banks |-> Len(w.aux.emitted[b]) - Len(w0.aux.emitted[b])],
                         Banks)
    IN  [w EXCEPT !.aux.n_calls = issued]

\* n_calls = self.ccp.step(tick=self.t)
CcpStep ==
    /\ pc = "ccp"
    /\ Install(CcpStepCounted(World, t, market.current_volatility))
    /\ pc' = "banks"
    /\ cur' = 0
    /\ UNCHANGED <<t, network, market, metrics, procs>>

\* belief means a step may hold after _update_beliefs: counterparty default
\* probability and network stress in thousandths, the expected margin call
\* in cents, the market volatility in 1e-4.  Calm is what the priors give
\* in a quiet market.  Alarm's stress level of 2.0 lies above the [0, 1] in
\* which the conjugate updates keep the stress belief: it is the value at
\* which _choose_action selects PROVIDE_INTERBANK_CREDIT, which no stress
\* level of the range does, and the credit handlers are exercised through it.
Calm  == [pd |-> 100, sl |-> 150, me |-> 500, vol |-> 2000]
Alarm == [pd |-> 100, sl |-> 2000, me |-> 100, vol |-> 8000]
Beliefs == {Calm, Alarm}

\* the draws of one bank step: random.choice(live_nbrs), the key of the
\* largest default belief among the exposures, random.choice([5, 10, 15])
NbrChoices(b) ==
    IF LiveNeighbors(World, network, b) = {} THEN {b}
    ELSE LiveNeighbors(World, network, b)

RiskiestChoices(b) ==
    IF DOMAIN banks[b].exposure_to_neighbors = {} THEN {b}
    ELSE DOMAIN banks[b].exposure_to_neighbors

\* mutant: the list of banks is walked two by two
AdvanceSkipping ==
    IF cur + 2 < NBanks
    THEN cur' = cur + 2 /\ pc' = pc
    ELSE cur' = 0 /\ pc' = "metrics"

Advance ==
    IF cur + 1 < NBanks
    THEN cur' = cur + 1 /\ pc' = pc
    ELSE cur' = 0 /\ pc' = "metrics"

\* self.banks.step(): the step of the next bank of the AgentList
BankStep ==
    /\ pc = "banks"
    /\ \E bel \in Beliefs, nbr \in NbrChoices(cur),
          riskiest \in RiskiestChoices(cur), tenor \in TenorChoices :
            Install(Step(World, network, cur, t,
                         [bel |-> bel, nbr |-> nbr, riskiest |-> riskiest,
                          tenor |-> tenor]))
    /\ Advance
    /\ UNCHANGED <<t, network, market, metrics, procs>>

\* _record_metrics, on the accumulators m and the world w
RecordMetricsOf(m, w) ==
    LET live == LiveBanks(w)
        n_active == Cardinality(live)
        n_stressed == Cardinality({b \in live : w.banks[b].stressed})
    IN  [m EXCEPT
            !.ts_defaults = Append(@, NBanks - n_active),
            !.ts_active = Append(@, n_active),
            !.ts_liquidity = Append(@, SumSet([b \in live |-> w.banks[b].liquidity], live)),
            !.ts_exposure = Append(@, SumSet([b \in live |-> TotalExposure(w.banks[b])], live)),
            !.ts_freeze_events = Append(@, IF n_active > 0 /\ 2 * n_stressed > n_active
                                           THEN 1 ELSE 0),
            !.ts_margin_calls_issued = Append(@, w.aux.n_calls),
            !.ts_default_fund = Append(@, w.ccp.default_fund),
            !.ts_interbank_loans = Append(@,
                SumSet([b \in live |-> Len(w.banks[b].interbank_loans_given)], live))]

\* _record_metrics
RecordMetrics ==
    /\ pc = "metrics"
    /\ metrics' = RecordMetricsOf(metrics, World)
    /\ pc' = "shock"
    /\ UNCHANGED <<t, cur, network, banks, ccp, market, redis, aux, procs>>

\* end(): after the last tick the fabric is flushed
End ==
    /\ pc = "shock"
    /\ t = MaxTick
    /\ redis' = Flushed
    /\ pc' = "done"
    /\ UNCHANGED <<t, cur, network, banks, ccp, market, metrics, aux, procs>>

Next ==
    \/ ApplyShock
    \/ PublishToRedis
    \/ PublishMarketData
    \/ CcpStep
    \/ BankStep
    \/ RecordMetrics
    \/ End

Spec == Init /\ [][Next]_vars

----------------------------------------------------------------------------
(* Properties of the run                                                   *)

\* the tick in which bank b defaulted is the tick of its last step
DefaultedAt(b, tick) == banks[b].defaulted /\ aux.stepped[b] = tick

\* the world, as any handler can change it
Untouched == banks' = banks /\ ccp' = ccp /\ redis' = redis /\ aux' = aux

\* C1: default is absorbing.  A bank whose defaulted flag is set keeps it in
\* every later state, and when its turn to step comes the step changes
\* nothing: no inbox is read, no intent is emitted, nothing is executed.
C1_DefaultAbsorbing ==
    [][\A b \in Banks :
          banks[b].defaulted =>
              /\ banks'[b].defaulted
              /\ (pc = "banks" /\ cur = b) => Untouched]_vars

\* a defaulted bank has had its turn in a later tick
C1_Witness ==
    \E b \in Banks :
        /\ banks[b].defaulted
        /\ aux.stepped[b] < t
        /\ pc = "banks" /\ cur > b

IsZeroed(bank) ==
    /\ bank.liquidity = 0
    /\ bank.capital = 0
    /\ \A a \in DOMAIN bank.assets : bank.assets[a] = 0
    /\ DOMAIN bank.exposure_to_neighbors = {}

\* C2: a defaulted bank's liquidity, capital, asset holdings and exposure
\* map are zero/empty from the step in which it defaults onwards, whatever
\* the shock, other banks' defaults, repayments and settlements do later.
C2_DefaultedStaysZero ==
    \A b \in Banks : banks[b].defaulted => IsZeroed(banks[b])

\* after a bank's default the shock has been applied and another bank has
\* defaulted (contagion and waterfall of the second default have run)
C2_Witness ==
    \E b \in Banks, c \in Banks :
        /\ b # c
        /\ banks[b].defaulted /\ banks[c].defaulted
        /\ aux.stepped[b] < aux.stepped[c]
        /\ aux.stepped[b] < ShockStep /\ ShockStep <= t

\* C3: the default fund equals the initial fund plus the deposits accepted
\* minus the amounts absorbed by default waterfalls, and is never negative.
C3_FundAccounting ==
    /\ ccp.default_fund = aux.initial_fund + aux.deposits - aux.absorbed
    /\ ccp.default_fund >= 0
    /\ aux.deposits = SumSet([b \in Banks |-> banks[b].default_fund_contribution], Banks)

\* a run with a deposit and with a waterfall that the fund could not cover
C3_Witness ==
    /\ aux.deposits > 0
    /\ aux.absorbed > 0
    /\ aux.absorbed < aux.initial_fund + aux.deposits
    /\ \E i \in 1 .. Len(ccp.default_fund_history) : ccp.default_fund_history[i] = 0

EndOfTick == t >= 1 /\ pc \in {"metrics", "shock", "done"}

Given(c) == banks[c].interbank_loans_given
Received(b) == banks[b].interbank_loans_received

\* the lenders, other than b, whose given list holds the loan id
LendersHolding(b, loan) ==
    {c \in Banks \ {b} : \E j \in 1 .. Len(Given(c)) : Given(c)[j].loan_id = loan.loan_id}

Mirrored(b, loan) ==
    /\ Cardinality(LendersHolding(b, loan)) = 1
    /\ \A c \in LendersHolding(b, loan) : \A j \in 1 .. Len(Given(c)) :
          Given(c)[j].loan_id = loan.loan_id =>
              /\ Given(c)[j].principal = loan.principal
              /\ Given(c)[j].interest_rate = loan.interest_rate
              /\ Given(c)[j].maturity_tick = loan.maturity_tick

Inbox(b) == IntentIds(Lrange(redis.margin_calls, b))

\* C5: margin calls are delivered exactly once.  The calls issued to a bank
\* are, in order and without repetition, the calls it has appended to
\* pending_margin_calls followed by those still in its inbox; the inbox is
\* empty once the bank has read it; at the end of the run the bank has
\* ingested as many calls as were issued to it.
C5_MarginCallsExactlyOnce ==
    \A b \in Banks :
        /\ aux.emitted[b] = aux.ingested[b] \o Inbox(b)
        /\ Inbox(b) # <<>> => pc = "banks" /\ cur <= b
        /\ pc = "done" => Len(aux.ingested[b]) = Len(aux.emitted[b])
        /\ \A i \in 1 .. Len(banks[b].pending_margin_calls) :
              /\ \E k \in 1 .. Len(aux.emitted[b]) :
                    aux.emitted[b][k] = banks[b].pending_margin_calls[i].intent_id
              /\ \A j \in 1 .. Len(banks[b].pending_margin_calls) :
                    i # j => banks[b].pending_margin_calls[i].intent_id
                             # banks[b].pending_margin_calls[j].intent_id

\* a bank has ingested the calls of two ticks and its inbox is empty
C5_Witness ==
    \E b \in Banks :
        /\ Len(aux.ingested[b]) >= 2
        /\ Inbox(b) = <<>>
        /\ pc = "metrics"

Holds(list, x) == \E i \in 1 .. Len(list) : list[i].intent_id = x.intent_id

EndsWith(lists, key, x) ==
    /\ key \in DOMAIN lists
    /\ lists[key] # <<>>
    /\ lists[key][Len(lists[key])].intent_id = x.intent_id

\* a private intent addressed to an agent other than its emitter
Targeted(x) ==
    /\ x.visibility = "private"
    /\ RouteTarget(x.payload) \notin {None, "", x.agent_id}

\* C6: private visibility.  A private intent of bank A addressed to T # A is
\* appended to stream:private:{T} and to stream:private:{A} and to no other
\* stream, and is never in the private inbox or the public view of a third
\* bank.
C6_PrivateVisibility ==
    \A a \in Banks : \A k \in 1 .. Len(banks[a].intent_log) :
        LET x == banks[a].intent_log[k]
            target == RouteTarget(x.payload)
        IN  Targeted(x) =>
              /\ \A key \in DOMAIN redis.stream_private :
                    Holds(redis.stream_private[key], x) => key \in {target, x.agent_id}
              /\ \A key \in DOMAIN redis.stream_public :
                    ~Holds(redis.stream_public[key], x)
              /\ \A c \in Banks :
                    BankId(c) \notin {target, x.agent_id} =>
                        /\ ~Holds(banks[c].private_intents_received, x)
                        /\ ~Holds(banks[c].public_intents_received, x)
              /\ (redis.intents_queue # <<>>
                  /\ redis.intents_queue[Len(redis.intents_queue)].intent_id = x.intent_id) =>
                        /\ EndsWith(redis.stream_private, target, x)
                        /\ EndsWith(redis.stream_private, x.agent_id, x)

\* a third bank has read its streams after a targeted private intent was
\* routed, and the addressee has read the intent
C6_Witness ==
    \E i \in 1 .. Len(redis.intents_queue) : \E j \in 1 .. Len(redis.intents_queue) :
        LET x == redis.intents_queue[i]
            y == redis.intents_queue[j]
        IN  /\ i < j
            /\ Targeted(x)
            /\ y.agent_id \notin {RouteTarget(x.payload), x.agent_id}
            /\ \E c \in Banks :
                  /\ BankId(c) = RouteTarget(x.payload)
                  /\ Holds(banks[c].private_intents_received, x)

RECURSIVE ConcatOver(_, _)
ConcatOver(f, todo) ==
    IF todo = <<>> THEN <<>> ELSE f[Head(todo)] \o ConcatOver(f, Tail(todo))

\* the ids of the public intents the banks emitted at tick, in emission
\* order (the banks step in index order, one intent each)
PublicEmitted(tick) ==
    ConcatOver([b \in Banks |->
                   IntentIds(SelectSeq(banks[b].intent_log,
                       LAMBDA i : i.tick = tick /\ i.visibility = "public"))],
               Ascending(Banks))

\* C7: public visibility.  The public view a bank ingests when it steps at
\* tick s is the sequence of the public intents emitted during tick s - 1,
\* in emission order: every public intent of tick t is in the view of every
\* bank that steps at t + 1, and in no view at tick t or earlier.
C7_PublicVisibility ==
    \A c \in Banks :
        aux.stepped[c] >= 1 =>
            IntentIds(banks[c].public_intents_received)
                = PublicEmitted(aux.stepped[c] - 1)

\* two banks have stepped at the same tick and ingested the same view of
\* two or more public intents, one of them having emitted one of these
C7_Witness ==
    \E c \in Banks, d \in Banks :
        /\ c # d
        /\ aux.stepped[c] >= 2 /\ aux.stepped[d] = aux.stepped[c]
        /\ Len(banks[c].public_intents_received) >= 2
        /\ banks[c].public_intents_received[1].agent_id = BankId(d)

SameKey(x, y) == x.tick = y.tick /\ x.asset = y.asset

\* the quantities of the sales before the k-th, at its (tick, asset)
SoldBefore(k) ==
    SumSeq([i \in 1 .. (k - 1) |->
               IF SameKey(aux.sales[i], aux.sales[k]) THEN aux.sales[i].quantity ELSE 0])

\* the quantities of all the sales at the (tick, asset) of the k-th
SoldAt(k) ==
    SumSeq([i \in 1 .. Len(aux.sales) |->
               IF SameKey(aux.sales[i], aux.sales[k]) THEN aux.sales[i].quantity ELSE 0])

\* each sale read the sum of the earlier sales; the stored total is the sum
SalesSerialized ==
    \A k \in 1 .. Len(aux.sales) :
        /\ aux.sales[k].cum_before = SoldBefore(k)
        /\ pc # "done" =>
              GetCumulativeSales(redis, aux.sales[k].tick, aux.sales[k].asset) = SoldAt(k)

\* C8 as stated: sale serialization within a tick, with the reported
\* cumulative_volume of a later seller strictly greater than that of any
\* earlier seller of the same asset in the tick.
C8_SaleSerialization ==
    /\ SalesSerialized
    /\ \A i \in 1 .. Len(aux.sales) : \A j \in 1 .. Len(aux.sales) :
          (i < j /\ SameKey(aux.sales[i], aux.sales[j])) =>
              aux.sales[j].cumulative_volume > aux.sales[i].cumulative_volume

\* C8 amended: the reported cumulative_volume is the stored total rounded to
\* 2 decimals, so a later seller's value is never smaller than an earlier
\* seller's, and it is strictly greater when the later sale is of more than
\* 0.01 units.
C8_SaleSerializationRounded ==
    /\ SalesSerialized
    /\ \A i \in 1 .. Len(aux.sales) : \A j \in 1 .. Len(aux.sales) :
          (i < j /\ SameKey(aux.sales[i], aux.sales[j])) =>
              /\ aux.sales[j].cumulative_volume >= aux.sales[i].cumulative_volume
              /\ aux.sales[j].quantity > 10 =>
                    aux.sales[j].cumulative_volume > aux.sales[i].cumulative_volume

\* three sales of one asset in one tick: the second, of less than 0.01
\* units, is reported the same volume as the first, the third a larger one
C8_Witness ==
    \E i \in 1 .. Len(aux.sales) :
        /\ i + 2 <= Len(aux.sales)
        /\ SameKey(aux.sales[i], aux.sales[i + 1])
        /\ SameKey(aux.sales[i], aux.sales[i + 2])
        /\ aux.sales[i + 1].cumulative_volume = aux.sales[i].cumulative_volume
        /\ aux.sales[i + 2].cumulative_volume > aux.sales[i + 1].cumulative_volume

----------------------------------------------------------------------------
(* Concurrent sellers: compute_sale_price called by several clients of the *)
(* fabric at once.  Each Redis command is atomic; a call is a GET of the   *)
(* cumulative volume, the GETs of the recent pressure and of the depth,    *)
(* and the INCRBYFLOAT that records the sale.                              *)

Sellers == 1 .. MaxSales

\* the amounts sold, in thousandths, and the assets
SaleAmounts == {10000, 4}
Assets == {"liquid_bond", "illiquid_asset"}

Standby ==
    [pc |-> "idle", asset |-> "liquid_bond", amount |-> 0, is_fire_sale |-> FALSE,
     cum_before |-> 0, price |-> 0]

\* the parts of the state that the fabric's concurrent callers leave alone
Backdrop ==
    /\ t = 1
    /\ cur = 0
    /\ network = CompleteGraph
    /\ banks = [b \in Banks |-> NewBank(Seller, CompleteGraph[b])]
    /\ ccp = NewCcp(CcpInitialDefaultFund)
    /\ market = [current_volatility |-> BaseVolatility, price_signal |-> 0]
    /\ metrics = NewMetrics

SaleInit ==
    /\ Backdrop
    /\ pc = "sales"
    /\ redis = SetMarketDepth(Flushed, MarketDepth)
    /\ aux = NewAux(CcpInitialDefaultFund)
    /\ procs = [p \in Sellers |-> Standby]

\* the call begins: cum_before = self.get_cumulative_sales(tick, asset_type)
SaleReadCum(p) ==
    /\ pc = "sales"
    /\ procs[p].pc = "idle"
    /\ \E asset \in Assets, amount \in SaleAmounts, fire \in BOOLEAN :
          procs' = [procs EXCEPT ![p] =
                      [pc |-> "priced", asset |-> asset, amount |-> amount,
                       is_fire_sale |-> fire,
                       cum_before |-> GetCumulativeSales(redis, t, asset),
                       price |-> 0]]
    /\ UNCHANGED <<t, pc, cur, network, banks, ccp, market, redis, metrics, aux>>

\* recent pressure and depth are read and the price is computed
SaleReadPressure(p) ==
    /\ pc = "sales"
    /\ procs[p].pc = "priced"
    /\ \E bel \in Beliefs :
          procs' = [procs EXCEPT
                      ![p].pc = "record",
                      ![p].price =
                          SalePrice(procs[p].cum_before,
                                    GetRecentSalePressure(redis, t, procs[p].asset, 3),
                                    GetMarketDepth(redis), procs[p].amount, bel.vol,
                                    procs[p].is_fire_sale).price_per_unit]
    /\ UNCHANGED <<t, pc, cur, network, banks, ccp, market, redis, metrics, aux>>

\* new_cum = self.record_sale(tick, asset_type, amount), and the return
SaleRecord(p) ==
    /\ pc = "sales"
    /\ procs[p].pc = "record"
    /\ redis' = RecordSale(redis, t, procs[p].asset, procs[p].amount)
    /\ aux' = [aux EXCEPT !.sales = Append(@,
                  [tick |-> t, asset |-> procs[p].asset, seller |-> p,
                   quantity |-> procs[p].amount,
                   cum_before |-> procs[p].cum_before,
                   cumulative_volume |->
                       Round2(GetCumulativeSales(redis', t, procs[p].asset))])]
    /\ procs' = [procs EXCEPT ![p].pc = "done"]
    /\ UNCHANGED <<t, pc, cur, network, banks, ccp, market, metrics>>

SaleNext ==
    \E p \in Sellers : SaleReadCum(p) \/ SaleReadPressure(p) \/ SaleRecord(p)

SaleSpec == SaleInit /\ [][SaleNext]_vars

\* C9: under any interleaving of concurrent sellers of one (tick, asset),
\* the k-th seller prices against the sum of the first k-1 sellers'
\* quantities, no two sellers price against the same cumulative volume, and
\* the stored total is the sum of all the quantities recorded.
C9_ConcurrentSaleAccounting ==
    /\ \A k \in 1 .. Len(aux.sales) :
          /\ aux.sales[k].cum_before = SoldBefore(k)
          /\ GetCumulativeSales(redis, aux.sales[k].tick, aux.sales[k].asset) = SoldAt(k)
    /\ \A i \in 1 .. Len(aux.sales) : \A j \in 1 .. Len(aux.sales) :
          (i < j /\ SameKey(aux.sales[i], aux.sales[j])) =>
              aux.sales[i].cum_before # aux.sales[j].cum_before

----------------------------------------------------------------------------
(* Concurrent use of a private stream: route_intent by emitters and        *)
(* read_private_stream by the addressee, which is an LRANGE followed by a  *)
(* DEL.                                                                    *)

Reader == [pc |-> "idle", raw |-> <<>>, delivered |-> <<>>]

PrivInit ==
    /\ Backdrop
    /\ pc = "streams"
    /\ redis = SetMarketDepth(Flushed, MarketDepth)
    /\ aux = NewAux(CcpInitialDefaultFund)
    /\ procs = [b \in Banks |-> Reader]

\* bank a routes a private intent addressed to another bank
PrivEmit(a, target) ==
    /\ pc = "streams"
    /\ a # target
    /\ aux.next_id <= MaxMsgs
    /\ redis' = RouteIntent(redis,
                    RouteOtcProposal(aux.next_id, t, BankId(a), BankId(target),
                                     1000, 300, 5))
    /\ aux' = [aux EXCEPT !.next_id = @ + 1]
    /\ UNCHANGED <<t, pc, cur, network, banks, ccp, market, metrics, procs>>

\* raw = self._r.lrange(key, 0, -1)
PrivRange(b) ==
    /\ pc = "streams"
    /\ procs[b].pc = "idle"
    /\ procs' = [procs EXCEPT ![b].pc = "ranged",
                              ![b].raw = Lrange(redis.stream_private, BankId(b))]
    /\ UNCHANGED <<t, pc, cur, network, banks, ccp, market, redis, metrics, aux>>

\* self._r.delete(key), and the intents ranged are returned
PrivDelete(b) ==
    /\ pc = "streams"
    /\ procs[b].pc = "ranged"
    /\ redis' = [redis EXCEPT !.stream_private = Del(@, BankId(b))]
    /\ procs' = [procs EXCEPT ![b].pc = "idle",
                              ![b].raw = <<>>,
                              ![b].delivered = @ \o IntentIds(procs[b].raw)]
    /\ UNCHANGED <<t, pc, cur, network, banks, ccp, market, metrics, aux>>

PrivNext ==
    \/ \E a \in Banks, target \in Banks : PrivEmit(a, target)
    \/ \E b \in Banks : PrivRange(b) \/ PrivDelete(b)

PrivSpec == PrivInit /\ [][PrivNext]_vars

Times(ids, id) == Cardinality({i \in 1 .. Len(ids) : ids[i] = id})

\* C10: every private intent appended to stream:private:{B} is returned by
\* exactly one read_private_stream(B): it is still to be returned (in the
\* stream, or ranged by a read in progress) or it has been returned once,
\* and never both.
C10_PrivateExactlyOnce ==
    \A b \in Banks : \A k \in 1 .. Len(redis.intents_queue) :
        LET x == redis.intents_queue[k]
            returned == Times(procs[b].delivered, x.intent_id)
            waiting == Holds(Lrange(redis.stream_private, BankId(b)), x)
            ranged == procs[b].pc = "ranged" /\ Holds(procs[b].raw, x)
        IN  BankId(b) \in {RouteTarget(x.payload), x.agent_id} =>
                /\ returned <= 1
                /\ returned = 1 \/ waiting \/ ranged
                /\ ~(returned = 1 /\ waiting)

----------------------------------------------------------------------------
(* A longer run without the exogenous shock (shock_step = None), in which  *)
(* loans reach maturity, repayment and forced settlement.                  *)

\* the ticks of the longer run
LongTicks == 6

\* a draw that the operating cost and the passive income of one step bring
\* to a liquidity of exactly 0
Edge == [liquidity |-> 198, capital |-> 1000, liquid_bond |-> 0,
         illiquid_asset |-> 0, exposure |-> 500]

\* a lender of little capital
Thin == [liquidity |-> 16000, capital |-> 800, liquid_bond |-> 20000,
         illiquid_asset |-> 10000, exposure |-> 500]

\* the runs explored at length, on the complete graph; the last is run with
\* margin_call_threshold = 10, under which the thin lender is not called
LongScenarios ==
    { [draws |-> <<Thin, Mid, Broke>>, fund |-> 10000,
       p |-> [margin_call_threshold |-> 1300, min_liquidity |-> MinLiquidity]],
      [draws |-> <<Lender, Mid, Poor>>, fund |-> 10000],
      [draws |-> <<Lender, Needy, Poor>>, fund |-> 10000],
      [draws |-> <<Banker, Mid, Poor>>, fund |-> 10000],
      [draws |-> <<Lender, Edge, Poor>>, fund |-> 10000] }

\* the parameters of a run: those it is given, or the defaults
ParamsOf(sc) == IF "p" \in DOMAIN sc THEN sc.p ELSE DefaultParams

LongInit ==
    \E sc \in LongScenarios :
        /\ t = 0
        /\ pc = "shock"
        /\ cur = 0
        /\ network = CompleteGraph
        /\ banks = [b \in Banks |-> NewBank(Draw(sc, b), CompleteGraph[b])]
        /\ ccp = [NewCcp(sc.fund) EXCEPT
                     !.p = ParamsOf(sc),
                     !.margin_call_threshold = ParamsOf(sc).margin_call_threshold]
        /\ market = [current_volatility |-> BaseVolatility, price_signal |-> 0]
        /\ redis = SetMarketDepth(Flushed, MarketDepth)
        /\ metrics = NewMetrics
        /\ aux = NewAux(sc.fund)
        /\ procs = NoProcs

\* the tick counter advances; _apply_shock returns at once
LongApplyShock ==
    /\ pc = "shock"
    /\ t < LongTicks
    /\ t' = t + 1
    /\ pc' = "publish"
    /\ UNCHANGED <<cur, network, banks, ccp, market, redis, metrics, aux, procs>>

\* the draws of one bank step of the longer run: any live neighbour, any
\* exposure as the riskiest, and the shortest tenor
LongBankStep ==
    /\ pc = "banks"
    /\ \E bel \in Beliefs :
      \E nbr \in NbrChoices(cur), riskiest \in RiskiestChoices(cur) :
          Install(Step(World, network, cur, t,
                       [bel |-> bel, nbr |-> nbr, riskiest |-> riskiest,
                        tenor |-> 5]))
    /\ Advance
    /\ UNCHANGED <<t, network, market, metrics, procs>>

LongEnd ==
    /\ pc = "shock"
    /\ t = LongTicks
    /\ redis' = Flushed
    /\ pc' = "done"
    /\ UNCHANGED <<t, cur, network, banks, ccp, market, metrics, aux, procs>>

LongNext ==
    \/ LongApplyShock
    \/ PublishToRedis
    \/ PublishMarketData
    \/ CcpStep
    \/ LongBankStep
    \/ RecordMetrics
    \/ LongEnd

LongSpec == LongInit /\ [][LongNext]_vars

\* C11: exposure non-negativity.  In every reachable state every exposure
\* of every bank to every counterparty is >= 0.
C11_ExposureNonNegative ==
    \A b \in Banks : \A n \in DOMAIN banks[b].exposure_to_neighbors :
        banks[b].exposure_to_neighbors[n] >= 0

\* an OTC loan has matured at a lender that had cut its exposure to the
\* borrower below the amount of the loan: the exposure is floored at 0
C11_Witness ==
    /\ aux.matured > 0
    /\ \E b \in Banks :
          /\ ~banks[b].defaulted
          /\ \E n \in DOMAIN banks[b].exposure_to_neighbors :
                banks[b].exposure_to_neighbors[n] = 0

----------------------------------------------------------------------------
(* The order of the phases of a tick, told from what each phase leaves:    *)
(* the tick counter (shock), system:step (publication), the exchange's     *)
(* volatility (market data), the CCP's histories (CCP step), the tick of   *)
(* each bank's last step, and the model's time series (metrics).           *)

PublishedStep == Get(redis.system, "step", 0)
CcpSteps == Len(ccp.utility_history)
Recorded == Len(metrics.ts_active)

\* what holds between the phases of tick t
PhasesInOrder ==
    /\ CcpSteps \in {t - 1, t}
    /\ Recorded \in {t - 1, t}
    /\ (t > 0 /\ CcpSteps = t /\ pc # "done") => PublishedStep = t
    /\ \A b \in Banks :
          (t > 0 /\ aux.stepped[b] = t) =>
              /\ CcpSteps = t
              /\ Recorded = t - 1 \/ pc \in {"shock", "done"}
              /\ \A a \in Banks :
                    a < b => (aux.stepped[a] = t \/ banks[a].defaulted)
    /\ (t > 0 /\ Recorded = t) =>
          \A b \in Banks : aux.stepped[b] = t \/ banks[b].defaulted

\* C12: tick phase order.  The tick counter advances (and the shock falls)
\* only when the previous tick is recorded; the state is published before
\* the exchange moves, the exchange before the CCP steps, the CCP before any
\* bank steps, the banks in ascending index order and each in one piece
\* (ingest, decide, publish, execute, loan ageing, default check), and the
\* metrics are recorded after all of them.  (end() flushes the fabric, so
\* system:step tells nothing once the run is over.)
C12_TickPhaseOrder ==
    [][/\ PhasesInOrder'
       /\ t' # t => (t' = t + 1 /\ Recorded = t /\ PublishedStep = t)
       /\ (PublishedStep' # PublishedStep /\ pc' # "done") =>
             (PublishedStep' = t /\ CcpSteps = t - 1 /\ market' = market)
       /\ market' # market => (PublishedStep = t /\ CcpSteps = t - 1)
       /\ CcpSteps' # CcpSteps =>
             (PublishedStep = t /\ \A b \in Banks : aux.stepped[b] < t)
       /\ \A b \in Banks :
             aux'.stepped[b] # aux.stepped[b] =>
                 /\ aux'.stepped[b] = t
                 /\ \A a \in Banks \ {b} : aux'.stepped[a] = aux.stepped[a]
                 /\ banks'[b].last_intent.tick = t
                 /\ Len(banks'[b].intent_log) = Len(banks[b].intent_log) + 1
                 /\ DefaultCheck(banks'[b]) => banks'[b].defaulted
       /\ Recorded' # Recorded => (Recorded' = t /\ banks' = banks /\ ccp' = ccp)
      ]_vars

\* the second tick has run through all its phases with every bank alive
C12_Witness ==
    /\ t = 2
    /\ Recorded = 2
    /\ \A b \in Banks : aux.stepped[b] = 2 /\ ~banks[b].defaulted

----------------------------------------------------------------------------
(* C13: the margin rate a bank observes                                    *)

\* the rate the CCP set in its step of tick k
RateOfTick(k) == ccp.margin_rate_history[k]

\* C13: the margin rate that a bank reads from the snapshot in its step of
\* tick k is the rate that the CCP computed and published in its step of
\* tick k, which has replaced the rate of tick k - 1 that _publish_to_redis
\* wrote at the start of the tick.
C13_MarginRateOfTick ==
    \A b \in Banks :
        aux.stepped[b] >= 1 =>
            /\ aux.stepped[b] <= Len(ccp.margin_rate_history)
            /\ aux.seen_rate[b] = RateOfTick(aux.stepped[b])

\* a bank has read, at tick 2, a rate that differs from the rate of tick 1
C13_Witness ==
    \E b \in Banks :
        /\ aux.stepped[b] = 2
        /\ Len(ccp.margin_rate_history) >= 2
        /\ aux.seen_rate[b] = RateOfTick(2)
        /\ RateOfTick(2) # RateOfTick(1)

----------------------------------------------------------------------------
(* C14: the global intent log                                              *)

\* the ids of intents:queue, oldest first
QueuedIds == IntentIds(redis.intents_queue)

\* C14: while a run lasts (end() flushes the store), intents:queue holds
\* every intent emitted so far by a bank, by the CCP (issue_margin_call) and
\* by the exchange (update_market_data), each exactly once and in the order
\* of emission.
C14_IntentLogComplete == pc # "done" => QueuedIds = aux.emission

----------------------------------------------------------------------------
(* C15: the exchange's market data                                         *)

\* _publish_market_data has run in tick t and the store is not yet flushed
MarketPublished == t >= 1 /\ pc \in {"ccp", "banks", "metrics", "shock"}

\* get_market_data: market:latest, or the default when the key is absent
GetMarketData(r) ==
    Get(r.market, "latest", [new_volatility |-> 2000, price_change_signal |-> 0])

\* the payload that the exchange built in tick t
MarketPayload ==
    [new_volatility |-> market.current_volatility,
     price_change_signal |-> market.price_signal]

\* the half of C15 about market:latest
MarketMirrored == MarketPublished => GetMarketData(redis) = MarketPayload

\* C15: once the exchange has published in tick t, stream:public:{t} holds
\* its update_market_data intent, and market:latest holds the payload of
\* that intent.
C15_MarketDataPublic ==
    MarketPublished =>
        /\ \E i \in 1 .. Len(ReadPublicStream(redis, t)) :
              LET m == ReadPublicStream(redis, t)[i]
              IN  /\ m.action_type = "update_market_data"
                  /\ m.agent_id = "exchange_01"
                  /\ m.payload = MarketPayload
        /\ GetMarketData(redis) = MarketPayload

----------------------------------------------------------------------------
(* C16: the boundary of the default check                                  *)

\* C16: a bank that has run its step is defaulted exactly when, at the end
\* of the last step it ran, its liquidity was <= 0 (0 included) or its
\* capital was <= 0; with both above 0 the check leaves it alive.
C16_DefaultBoundary ==
    \A b \in Banks :
        aux.stepped[b] >= 1 =>
            (banks[b].defaulted <=>
                (aux.at_check[b].liquidity <= 0 \/ aux.at_check[b].capital <= 0))

\* a bank ended its step with a liquidity of exactly 0 and a capital above 0
C16_Witness ==
    \E b \in Banks :
        /\ aux.stepped[b] >= 1
        /\ aux.at_check[b].liquidity = 0
        /\ aux.at_check[b].capital > 0
        /\ banks[b].defaulted

----------------------------------------------------------------------------
(* C17: no action is emitted against its guard                             *)

\* the guard that the specification gives for each guarded action type, on
\* the context c of the decision; money in cents, quantities, urgency and
\* stress in thousandths
GuardHeld(action, c) ==
    CASE action = "FIRE_SALE_ASSET" ->
            /\ c.total_assets > 0
            /\ (c.shortfall > 500 \/ c.margin_urgency > 500 \/ c.liquidity < 1500)
      [] action = "pay_margin_call" -> c.pending > 0
      [] action = "REPAY_INTERBANK_LOAN" -> c.loans_due > 0
      [] action = "DECLARE_DEFAULT" -> c.liquidity < 500 /\ c.capital < 1000
      [] action = "DEPOSIT_DEFAULT_FUND" ->
            c.liquidity > 8000 /\ c.stress_level < 200 /\ ~c.stressed
      [] action = "PROVIDE_INTERBANK_CREDIT" -> c.live_nbrs > 0 /\ c.liquidity > 10000
      [] action = "sell_asset_standard" -> c.liquid_bond > 0
      [] OTHER -> TRUE

\* C17: the action that a bank emits in a step is one whose guard holds on
\* what _choose_action saw in that step; stated on the latest step taken.
C17_NoActionAgainstGuard ==
    aux.decided.bank \in Banks =>
        GuardHeld(banks[aux.decided.bank].last_intent.action_type, aux.decided)

\* the latest step emitted a fire sale, by a bank that held assets and was
\* short of liquidity
C17_Witness ==
    /\ aux.decided.bank \in Banks
    /\ banks[aux.decided.bank].last_intent.action_type = "FIRE_SALE_ASSET"
    /\ aux.decided.total_assets > 0
    /\ aux.decided.liquidity < 1500

----------------------------------------------------------------------------
(* C18: panic mode                                                         *)

\* the exposures of the banks that are not defaulted, summed
LiveExposure == SumSet([b \in LiveNow |-> TotalExposure(banks[b])], LiveNow)

\* the CCP has just completed a step and no bank has moved since
CcpJustStepped == pc = "banks" /\ cur = 0

\* C18: when the CCP has completed its step, panic_mode is true exactly when
\* the exposure of the live banks, which is what the step observed, exceeds
\* default_fund * safe_multiplier; with an empty fund any exposure above 0
\* is a panic.
C18_PanicExactly ==
    CcpJustStepped =>
        /\ ccp.total_exposure = LiveExposure
        /\ ccp.panic_mode <=> (LiveExposure > ccp.default_fund * CcpSafeMultiplier)
        /\ (ccp.default_fund = 0 /\ LiveExposure > 0) => ccp.panic_mode

\* the CCP stepped with an empty fund and live exposure, and is in panic
C18_Witness ==
    /\ CcpJustStepped
    /\ ccp.default_fund = 0
    /\ LiveExposure > 0
    /\ ccp.panic_mode

----------------------------------------------------------------------------
(* The envelope's serialisation (ActionIntent.to_dict and from_dict),      *)
(* applied to the envelopes and the dicts of a bounded set.  A Python      *)
(* number or numeric string is held as its kind and its value in tenths.   *)

PyInt(n) == [kind |-> "int", tenths |-> 10 * n]
PyFloat(tenths) == [kind |-> "float", tenths |-> tenths]
PyStr(n) == [kind |-> "str", tenths |-> 10 * n]

\* int(v): an int is kept, a float is truncated, a string of digits is parsed
IntOf(v) == [kind |-> "int", tenths |-> 10 * (v.tenths \div 10)]

\* v == w in Python: numbers compare by value, a string only with a string
PyEq(v, w) ==
    IF v.kind = "str" \/ w.kind = "str" THEN v = w ELSE v.tenths = w.tenths

\* the fields of the dataclass
EnvelopeFields ==
    {"intent_id", "tick", "agent_id", "action_type", "visibility", "payload",
     "belief_snapshot", "risk_preference"}

\* d.get(key, default)
DictGet(d, key, default) == IF key \in DOMAIN d THEN d[key] ELSE default

\* the default_factory dict of the dataclass, and the {} of d.get
EmptyDict == [k \in {} |-> 0]

\* to_dict: the eight fields, the three dicts copied
ToDict(e) ==
    [intent_id |-> e.intent_id,
     tick |-> e.tick,
     agent_id |-> e.agent_id,
     action_type |-> e.action_type,
     visibility |-> e.visibility,
     payload |-> e.payload,
     belief_snapshot |-> e.belief_snapshot,
     risk_preference |-> e.risk_preference]

\* mutant: the visibility of the dict is not read
FromDictPrivate(d) ==
    [intent_id |-> d["intent_id"],
     tick |-> IntOf(d["tick"]),
     agent_id |-> d["agent_id"],
     action_type |-> d["action_type"],
     visibility |-> "private",
     payload |-> DictGet(d, "payload", EmptyDict),
     belief_snapshot |-> DictGet(d, "belief_snapshot", EmptyDict),
     risk_preference |-> DictGet(d, "risk_preference", EmptyDict)]

\* from_dict: four keys are required, tick goes through int(), the other
\* four have defaults; no other key is read
FromDict(d) ==
    [intent_id |-> d["intent_id"],
     tick |-> IntOf(d["tick"]),
     agent_id |-> d["agent_id"],
     action_type |-> d["action_type"],
     visibility |-> DictGet(d, "visibility", "private"),
     payload |-> DictGet(d, "payload", EmptyDict),
     belief_snapshot |-> DictGet(d, "belief_snapshot", EmptyDict),
     risk_preference |-> DictGet(d, "risk_preference", EmptyDict)]

\* d == d2 for two dicts: the same keys, and equal values under every key
DictEq(d, d2) ==
    /\ DOMAIN d = DOMAIN d2
    /\ \A k \in DOMAIN d : IF k = "tick" THEN PyEq(d[k], d2[k]) ELSE d[k] = d2[k]

\* the bound on the ticks of the envelopes tried
MaxEnvTick == 2

\* envelopes as IntentFactory builds them: an integer tick, the three dicts
EnvIntents ==
    [intent_id : {"id-1", "id-2"},
     tick : {PyInt(n) : n \in 1 .. MaxEnvTick},
     agent_id : {"bank_00", "ccp_01"},
     action_type : {"borrow"},
     visibility : {"private", "public"},
     payload : {[amount |-> 1000], [amount |-> 2500]},
     belief_snapshot : {[stress |-> 150]},
     risk_preference : {[liquidity_aversion |-> 500]}]

\* the ticks a dict may carry: an integer, a float with or without a
\* fraction, a string of digits
DictTicks ==
    {PyInt(n) : n \in 1 .. MaxEnvTick} \cup {PyFloat(10), PyFloat(25)} \cup {PyStr(2)}

\* dicts with the eight keys
FullDicts ==
    [intent_id : {"id-1"},
     tick : DictTicks,
     agent_id : {"bank_00"},
     action_type : {"borrow"},
     visibility : {"private", "public"},
     payload : {[amount |-> 1000]},
     belief_snapshot : {[stress |-> 150]},
     risk_preference : {[liquidity_aversion |-> 500]}]

\* d without the key k
Without(d, k) == [x \in (DOMAIN d) \ {k} |-> d[x]]

\* d with a key that the dataclass does not have
WithTimestamp(d) ==
    [x \in (DOMAIN d) \cup {"timestamp"} |-> IF x = "timestamp" THEN 7 ELSE d[x]]

\* the dicts tried: the eight keys, an optional key missing, a ninth key
EnvDicts ==
    FullDicts
    \cup {Without(d, "visibility") : d \in FullDicts}
    \cup {Without(d, "belief_snapshot") : d \in FullDicts}
    \cup {WithTimestamp(d) : d \in FullDicts}

EnvInit ==
    /\ Backdrop
    /\ pc = "envelope"
    /\ redis = SetMarketDepth(Flushed, MarketDepth)
    /\ aux = NewAux(CcpInitialDefaultFund)
    /\ \E e \in EnvIntents, d \in EnvDicts :
          procs = [e |-> e, decoded |-> FALSE, e_back |-> e,
                   d |-> d, encoded |-> FALSE, d_back |-> d]

\* ActionIntent.from_dict(e.to_dict())
EnvThere ==
    /\ pc = "envelope"
    /\ ~procs.decoded
    /\ procs' = [procs EXCEPT !.decoded = TRUE, !.e_back = FromDict(ToDict(procs.e))]
    /\ UNCHANGED <<t, pc, cur, network, banks, ccp, market, redis, metrics, aux>>

\* ActionIntent.from_dict(d).to_dict()
EnvBack ==
    /\ pc = "envelope"
    /\ ~procs.encoded
    /\ procs' = [procs EXCEPT !.encoded = TRUE, !.d_back = ToDict(FromDict(procs.d))]
    /\ UNCHANGED <<t, pc, cur, network, banks, ccp, market, redis, metrics, aux>>

EnvNext == EnvThere \/ EnvBack

EnvSpec == EnvInit /\ [][EnvNext]_vars

\* e == e2 for two envelopes, field by field
FieldEq(e, e2) ==
    \A k \in EnvelopeFields : IF k = "tick" THEN PyEq(e[k], e2[k]) ELSE e[k] = e2[k]

\* the first half of C19: an envelope survives to_dict and from_dict
EnvelopeSurvives == procs.decoded => FieldEq(procs.e_back, procs.e)

----------------------------------------------------------------------------
(* Two runs with the same seed and the same configuration, side by side.   *)
(* The first run is held in the variables of the scheduler, the second in  *)
(* procs.  What the seed fixes is the same in both: the graph (networkx is *)
(* given the seed) and the draws of model.random (the market's noise, the  *)
(* neighbour and the tenor picked in a step).  BankAgent.setup and         *)
(* init_neighbor_data draw the balance sheets and the exposures with       *)
(* np.random.uniform, the generator of the numpy module, which no line of  *)
(* the program seeds: each run draws them on its own.                      *)

\* the ticks of the two runs
TwinTicks == 2

\* the seeds tried, and the graph that networkx builds from each
TwinSeeds == {42, 99}
TwinGraph(seed) == IF seed = 42 THEN CompleteGraph ELSE PathGraph

\* what np.random.uniform may hand to the banks of a run
TwinDraws ==
    { [draws |-> <<Lender, Mid, Poor>>, fund |-> CcpInitialDefaultFund],
      [draws |-> <<Seller, Dust, Poor>>, fund |-> CcpInitialDefaultFund],
      [draws |-> <<Banker, Mid, Poor>>, fund |-> CcpInitialDefaultFund] }

\* the world of a run after setup
NewWorld(sc, net) ==
    [banks |-> [b \in Banks |-> NewBank(Draw(sc, b), net[b])],
     ccp |-> NewCcp(sc.fund),
     redis |-> SetMarketDepth(Flushed, MarketDepth),
     aux |-> NewAux(sc.fund)]

TwinInit ==
    \E seed \in TwinSeeds, first \in TwinDraws, second \in TwinDraws :
        /\ t = 0
        /\ pc = "shock"
        /\ cur = 0
        /\ network = TwinGraph(seed)
        /\ banks = NewWorld(first, TwinGraph(seed)).banks
        /\ ccp = NewWorld(first, TwinGraph(seed)).ccp
        /\ redis = NewWorld(first, TwinGraph(seed)).redis
        /\ aux = NewWorld(first, TwinGraph(seed)).aux
        /\ market = [current_volatility |-> BaseVolatility, price_signal |-> 0]
        /\ metrics = NewMetrics
        /\ procs = [seed |-> seed,
                    same_draws |-> first = second,
                    w |-> NewWorld(second, TwinGraph(seed)),
                    metrics |-> NewMetrics]

TwinApplyShock ==
    /\ pc = "shock"
    /\ t < TwinTicks
    /\ t' = t + 1
    /\ pc' = "publish"
    /\ UNCHANGED <<cur, network, banks, ccp, market, redis, metrics, aux, procs>>

TwinPublishToRedis ==
    /\ pc = "publish"
    /\ redis' = PublishToRedisOf(World, t).redis
    /\ procs' = [procs EXCEPT !.w = PublishToRedisOf(@, t)]
    /\ pc' = "market"
    /\ UNCHANGED <<t, cur, network, banks, ccp, market, metrics, aux>>

\* the seeded draws of the market are the same in both runs
TwinPublishMarketData ==
    /\ pc = "market"
    /\ \E noise \in NoiseLevels, signal \in SignalLevels :
        LET vol == NextVolatility(market.current_volatility, noise)
            price == ClampSignal(signal)
            w == PublishMarketDataOf(World, t, vol, price)
        IN  /\ market' = [current_volatility |-> vol, price_signal |-> price]
            /\ redis' = w.redis
            /\ aux' = w.aux
            /\ procs' = [procs EXCEPT !.w = PublishMarketDataOf(@, t, vol, price)]
    /\ pc' = "ccp"
    /\ UNCHANGED <<t, cur, network, banks, ccp, metrics>>

TwinCcpStep ==
    /\ pc = "ccp"
    /\ Install(CcpStepCounted(World, t, market.current_volatility))
    /\ procs' = [procs EXCEPT !.w = CcpStepCounted(@, t, market.current_volatility)]
    /\ pc' = "banks"
    /\ cur' = 0
    /\ UNCHANGED <<t, network, market, metrics>>

\* the candidates of random.choice(live_nbrs) and of the riskiest exposure
\* in the world w
NbrChoicesOf(w, b) ==
    IF LiveNeighbors(w, network, b) = {} THEN {b} ELSE LiveNeighbors(w, network, b)

RiskiestChoicesOf(w, b) ==
    IF DOMAIN w.banks[b].exposure_to_neighbors = {} THEN {b}
    ELSE DOMAIN w.banks[b].exposure_to_neighbors

\* the step of the next bank in both runs: the same beliefs and tenor, and
\* the same picks wherever the two runs offer the same candidates
TwinBankStep ==
    /\ pc = "banks"
    /\ \E bel \in Beliefs :
       \E nbr \in NbrChoicesOf(World, cur), nbr2 \in NbrChoicesOf(procs.w, cur),
          riskiest \in RiskiestChoicesOf(World, cur),
          riskiest2 \in RiskiestChoicesOf(procs.w, cur) :
            /\ NbrChoicesOf(World, cur) = NbrChoicesOf(procs.w, cur) => nbr = nbr2
            /\ RiskiestChoicesOf(World, cur) = RiskiestChoicesOf(procs.w, cur) =>
                    riskiest = riskiest2
            /\ Install(Step(World, network, cur, t,
                            [bel |-> bel, nbr |-> nbr, riskiest |-> riskiest,
                             tenor |-> 5]))
            /\ procs' = [procs EXCEPT !.w =
                            Step(@, network, cur, t,
                                 [bel |-> bel, nbr |-> nbr2, riskiest |-> riskiest2,
                                  tenor |-> 5])]
    /\ Advance
    /\ UNCHANGED <<t, network, market, metrics>>

TwinRecordMetrics ==
    /\ pc = "metrics"
    /\ metrics' = RecordMetricsOf(metrics, World)
    /\ procs' = [procs EXCEPT !.metrics = RecordMetricsOf(@, procs.w)]
    /\ pc' = "shock"
    /\ UNCHANGED <<t, cur, network, banks, ccp, market, redis, aux>>

TwinEnd ==
    /\ pc = "shock"
    /\ t = TwinTicks
    /\ redis' = Flushed
    /\ procs' = [procs EXCEPT !.w.redis = Flushed]
    /\ pc' = "done"
    /\ UNCHANGED <<t, cur, network, banks, ccp, market, metrics, aux>>

TwinNext ==
    \/ TwinApplyShock
    \/ TwinPublishToRedis
    \/ TwinPublishMarketData
    \/ TwinCcpStep
    \/ TwinBankStep
    \/ TwinRecordMetrics
    \/ TwinEnd

TwinSpec == TwinInit /\ [][TwinNext]_vars

\* the balance sheet and the exposures of a bank
Sheet(bank) ==
    [liquidity |-> bank.liquidity, capital |-> bank.capital,
     assets |-> bank.assets, exposure_to_neighbors |-> bank.exposure_to_neighbors]

\* the action types that a bank has emitted, tick after tick
ActionTypes(bank) ==
    [i \in 1 .. Len(bank.intent_log) |->
        <<bank.intent_log[i].tick, bank.intent_log[i].action_type>>]

\* what the seed does fix: two runs that happened to draw the same balance
\* sheets and exposures stay equal, bank by bank
SeededPartAgrees ==
    procs.same_draws => (banks = procs.w.banks /\ ccp = procs.w.ccp)

\* C20: two runs with the same seed and the same configuration start every
\* bank from the same balance sheet and exposures, and every bank emits the
\* same action type at the same tick in both.
C20_Determinism ==
    /\ t = 0 => \A b \in Banks : Sheet(banks[b]) = Sheet(procs.w.banks[b])
    /\ \A b \in Banks : ActionTypes(banks[b]) = ActionTypes(procs.w.banks[b])

----------------------------------------------------------------------------
(* C21: the voluntary default scenario                                     *)

\* the latest step was taken at tick 1 by a bank that entered it with
\* liquidity 3 and capital 5
VoluntaryDefaultCase ==
    /\ aux.decided.bank \in Banks
    /\ t = 1
    /\ aux.stepped[aux.decided.bank] = 1
    /\ aux.decided.liquidity = 300
    /\ aux.decided.capital = 500

\* C21: a bank that enters tick 1 with liquidity 3 and capital 5 emits
\* DECLARE_DEFAULT at tick 1, and in that tick its exposures are zeroed and
\* the CCP's default waterfall has run for it.
C21_VoluntaryDefault ==
    VoluntaryDefaultCase =>
        LET b == aux.decided.bank
        IN  /\ banks[b].last_intent.action_type = "DECLARE_DEFAULT"
            /\ banks[b].defaulted
            /\ DOMAIN banks[b].exposure_to_neighbors = {}
            /\ aux.waterfalls[b] = 1

\* what the bank of the scenario does instead: DECLARE_DEFAULT is never the
\* action it emits, and it ends the step alive
C21_Observed ==
    VoluntaryDefaultCase =>
        LET b == aux.decided.bank
        IN  /\ banks[b].last_intent.action_type # "DECLARE_DEFAULT"
            /\ ~banks[b].defaulted
            /\ aux.waterfalls[b] = 0

----------------------------------------------------------------------------
(* C22: the life of an interbank loan                                      *)

\* the step being taken is bank b's and it emits a repayment
Repays(b) ==
    /\ banks'[b].last_intent # banks[b].last_intent
    /\ banks'[b].last_intent.action_type = "REPAY_INTERBANK_LOAN"

\* the loan that the repayment names, as the borrower held it before the step
LoanRepaid(b) ==
    SelectSeq(banks[b].interbank_loans_received,
              LAMBDA l : l.loan_id = banks'[b].last_intent.payload.loan_id)[1]

LenderOf(loan) == ResolveTargetByStr(loan.lender)

\* the tick of the lender's intent that created the loan
CreatedAt(loan) ==
    SelectSeq(banks[LenderOf(loan)].intent_log,
              LAMBDA x : x.intent_id = loan.loan_id)[1].tick

\* the repayment is of a loan made for 5 ticks, and the lender and the
\* borrower are not defaulted before or after the step
FiveTickLoanRepaid(b) ==
    /\ Repays(b)
    /\ ~banks[LenderOf(LoanRepaid(b))].defaulted
    /\ ~banks'[LenderOf(LoanRepaid(b))].defaulted
    /\ ~banks'[b].defaulted
    /\ LoanRepaid(b).maturity_tick = CreatedAt(LoanRepaid(b)) + 5

\* the liquidity that _execute_intent leaves for the dispatched routine:
\* less the operating cost, plus the passive income
LiquidityAtExecution(bank) ==
    bank.liquidity - StepOperatingCost
        + Frac(bank.capital, 2) + bank.assets.liquid_bond \div 10000

\* the repayment is in full: principal plus interest is within the
\* borrower's liquidity when the repayment is executed
InFull(b) ==
    LET p == banks'[b].last_intent.payload
    IN  p.principal + p.interest <= LiquidityAtExecution(banks[b])

\* the lender is credited with principal and interest, and the loan leaves
\* both lists, in the step of the repayment
SettledInStep(b) ==
    LET loan == LoanRepaid(b)
        lender == LenderOf(loan)
        p == banks'[b].last_intent.payload
        HoldsLoan(list) == \E i \in 1 .. Len(list) : list[i].loan_id = loan.loan_id
    IN  /\ banks'[lender].liquidity = banks[lender].liquidity + p.principal + p.interest
        /\ p.principal = loan.principal
        /\ p.interest = RoundTo(loan.principal * loan.interest_rate, 10000) \div 10000
        /\ ~HoldsLoan(banks'[b].interbank_loans_received)
        /\ ~HoldsLoan(banks'[lender].interbank_loans_given)

C22_RepaidOneTickEarly ==
    [][\A b \in Banks :
          FiveTickLoanRepaid(b) =>
              /\ banks'[b].last_intent.tick = LoanRepaid(b).maturity_tick - 1
              /\ InFull(b) => SettledInStep(b)]_vars

----------------------------------------------------------------------------
(* C23: the public streams of past ticks, and system:step                  *)

\* tick k has completed: the scheduler has left its last phase
TickCompleted(k) == k < t \/ (k = t /\ pc \in {"shock", "done"})

\* C23: once tick k has completed, stream:public:{k} is never appended to
\* or modified by the agents of a later tick, and the system:step value
\* that the scheduler writes strictly increases from tick to tick (it is
\* the tick number, and nothing else writes it).  The flush of end() is
\* not an agent's write and is left out.
C23_PastStreamsFrozen ==
    [][pc' # "done" =>
          /\ \A k \in 0 .. MaxTick :
                TickCompleted(k) =>
                    ReadPublicStream(redis', k) = ReadPublicStream(redis, k)
          /\ pc = "publish" => PublishedStep' = t /\ PublishedStep' > PublishedStep
          /\ pc # "publish" => PublishedStep' = PublishedStep]_vars

\* banks have written to the public streams of two ticks, and the stream of
\* the earlier tick still holds what it held
C23_Witness ==
    /\ t = 3
    /\ PublishedStep = 3
    /\ ReadPublicStream(redis, 1) # <<>>
    /\ ReadPublicStream(redis, 3) # <<>>
    /\ \A i \in 1 .. Len(ReadPublicStream(redis, 1)) :
          ReadPublicStream(redis, 1)[i].tick = 1

----------------------------------------------------------------------------
(* Runs under parameters other than the defaults.  In the first,           *)
(* min_liquidity = 0, margin_call_threshold = 10 and the asset ranges are   *)
(* [0, 0]: a bank declares its default.  In the second,                     *)
(* margin_call_threshold = 0.1 and the fund is small: the CCP enters panic  *)
(* from a baseline threshold below 0.2.  The third has the defaults and a   *)
(* small fund, the fourth the defaults and a graph without edges.           *)

\* draws of BankAgent.setup under asset ranges of [0, 0]
Faint == [liquidity |-> 400, capital |-> 300, liquid_bond |-> 0,
          illiquid_asset |-> 0, exposure |-> 500]
Plain == [liquidity |-> 5000, capital |-> 8000, liquid_bond |-> 0,
          illiquid_asset |-> 0, exposure |-> 3000]
Flush == [liquidity |-> 16000, capital |-> 2000, liquid_bond |-> 0,
          illiquid_asset |-> 0, exposure |-> 500]

Low   == [liquidity |-> 300, capital |-> 500, liquid_bond |-> 0,
          illiquid_asset |-> 0, exposure |-> 3000]

\* a graph without edges: every node of the random graph is isolated
EmptyGraph == [b \in Banks |-> {}]

ParamScenarios ==
    { [draws |-> <<Faint, Plain, Flush>>, fund |-> 3000, net |-> CompleteGraph,
       p |-> [margin_call_threshold |-> 10000, min_liquidity |-> 0]],
      [draws |-> <<Mid, Rich, Mid>>, fund |-> 1000, net |-> CompleteGraph,
       p |-> [margin_call_threshold |-> 100, min_liquidity |-> MinLiquidity]],
      [draws |-> <<Broke, Lender, Rich>>, fund |-> 500, net |-> CompleteGraph,
       p |-> DefaultParams],
      [draws |-> <<Needy, Mid, Lender>>, fund |-> 10000, net |-> EmptyGraph,
       p |-> DefaultParams],
      [draws |-> <<Low, Mid, Broke>>, fund |-> 10000, net |-> CompleteGraph,
       p |-> DefaultParams] }

ParamInit ==
    \E sc \in ParamScenarios :
        /\ t = 0
        /\ pc = "shock"
        /\ cur = 0
        /\ network = sc.net
        /\ banks = [b \in Banks |-> NewBank(Draw(sc, b), sc.net[b])]
        /\ ccp = [NewCcp(sc.fund) EXCEPT
                     !.p = sc.p,
                     !.margin_call_threshold = sc.p.margin_call_threshold]
        /\ market = [current_volatility |-> BaseVolatility, price_signal |-> 0]
        /\ redis = SetMarketDepth(Flushed, MarketDepth)
        /\ metrics = NewMetrics
        /\ aux = NewAux(sc.fund)
        /\ procs = NoProcs

ParamSpec == ParamInit /\ [][Next]_vars

\* C24: each bank default triggers the CCP's default waterfall exactly
\* once, whether the default is voluntary (the bank executes
\* DECLARE_DEFAULT) or forced by the default check that ends a step: the
\* waterfall has run once for every defaulted bank and never for a live one.
C24_WaterfallOncePerDefault ==
    \A b \in Banks : aux.waterfalls[b] = (IF banks[b].defaulted THEN 1 ELSE 0)

\* a bank has executed DECLARE_DEFAULT
DeclaredDefault ==
    \E b \in Banks :
        /\ banks[b].defaulted
        /\ banks[b].last_intent.action_type = "DECLARE_DEFAULT"

\* what the code does: the waterfall runs twice for a declared default and
\* once for a forced one
C24_TwiceWhenDeclared ==
    \A b \in Banks :
        aux.waterfalls[b] =
            (IF ~banks[b].defaulted THEN 0
             ELSE IF banks[b].last_intent.action_type = "DECLARE_DEFAULT" THEN 2
             ELSE 1)

----------------------------------------------------------------------------
(* C25: direct contagion                                                   *)

\* bank d defaults in the step being taken
DefaultsInStep(d) == ~banks[d].defaulted /\ banks'[d].defaulted

\* the step of d moves nothing at another bank before the default: d holds
\* no loan and emits an action that touches its own books only, so that the
\* exposures of d at its default are those it entered the step with
OwnBooksOnly(d) ==
    /\ banks[d].otc_loans = <<>>
    /\ banks[d].interbank_loans_received = <<>>
    /\ banks'[d].last_intent.action_type \in
           {"pay_margin_call", "FIRE_SALE_ASSET", "sell_asset_standard"}

\* the fund is not exhausted by the step: it covered the uncovered amount
\* and nothing was mutualised
FundCovered == ccp'.default_fund > 0

\* every bank other than d that is not defaulted loses 0.3 of exposure_of[n]
\* from capital and 0.15 of that loss from liquidity, and nothing else
ChargedOn(d, exposure_of) ==
    \A n \in Banks \ {d} :
        ~banks[n].defaulted =>
            /\ banks'[n].capital = banks[n].capital - Frac(exposure_of[n], 300)
            /\ banks'[n].liquidity =
                   banks[n].liquidity - Frac(Frac(exposure_of[n], 300), 150)

\* the exposure that n holds to d: the lender's view of what d owes n
ExposureTo(d) == [n \in Banks |-> Get(banks[n].exposure_to_neighbors, d, 0)]

\* the exposure that d holds to n
ExposureOf(d) == [n \in Banks |-> Get(banks[d].exposure_to_neighbors, n, 0)]

\* C25: when bank D defaults, each non-defaulted neighbour N loses 0.3 x
\* (N's exposure to D) from capital and 0.045 x (N's exposure to D) from
\* liquidity, and a bank with no exposure to D loses nothing; stated for
\* the defaults in which the waterfall mutualises nothing.
C25_ContagionOnExposureToDefaulter ==
    [][\A d \in Banks :
          DefaultsInStep(d) /\ OwnBooksOnly(d) /\ FundCovered =>
              ChargedOn(d, ExposureTo(d))]_vars

\* what the code does: the loss of N is taken on the exposure that D holds
\* to N, the entry of N in D's own map
C25_ContagionOnDefaulterExposure ==
    [][\A d \in Banks :
          DefaultsInStep(d) /\ OwnBooksOnly(d) /\ FundCovered =>
              ChargedOn(d, ExposureOf(d))]_vars

----------------------------------------------------------------------------
(* C26: conservation in the default waterfall                              *)

\* the banks that the waterfall of d counts and charges
Survivors(d) == {x \in Banks \ {d} : ~banks[x].defaulted}

\* the total uncovered amount: 0.6 of the exposure to d of every survivor
Uncovered(d) ==
    SumSet([x \in Survivors(d) |-> Frac(ExposureTo(d)[x], 600)], Survivors(d))

\* what the step takes from x beyond the direct contagion of d's default
MutualisedCapital(d, x) ==
    banks[x].capital - banks'[x].capital - Frac(ExposureOf(d)[x], 300)

MutualisedLiquidity(d, x) ==
    banks[x].liquidity - banks'[x].liquidity
        - Frac(Frac(ExposureOf(d)[x], 300), 150)

\* what the fund absorbs in the step
AbsorbedInStep == aux'.absorbed - aux.absorbed

\* C26: in one run of the default waterfall for bank D with at least one
\* survivor, the fund absorption plus the total deducted from the survivors
\* by mutualisation equals the total uncovered amount, the sum of 0.6 x
\* (exposure to D) over the non-defaulted banks other than D; every
\* survivor is charged the same share, half from capital and half from
\* liquidity, and nothing is mutualised when the fund covers the uncovered
\* amount.  Amounts are whole cents: the shares add up to the residual to
\* within one cent per half share.
C26_WaterfallConservation ==
    [][\A d \in Banks :
          DefaultsInStep(d) /\ OwnBooksOnly(d) /\ Survivors(d) # {} =>
              LET S == Survivors(d)
                  deducted == SumSet([x \in S |-> MutualisedCapital(d, x)
                                                  + MutualisedLiquidity(d, x)], S)
                  gap == Uncovered(d) - (AbsorbedInStep + deducted)
              IN  /\ AbsorbedInStep = Min(ccp.default_fund, Uncovered(d))
                  /\ ccp'.default_fund = ccp.default_fund - AbsorbedInStep
                  /\ 0 <= gap /\ gap < 2 * Cardinality(S)
                  /\ \A x \in S, y \in S :
                        /\ MutualisedCapital(d, x) = MutualisedLiquidity(d, x)
                        /\ MutualisedCapital(d, x) = MutualisedCapital(d, y)
                        /\ MutualisedCapital(d, x) >= 0
                  /\ ccp.default_fund >= Uncovered(d) =>
                        \A x \in S : MutualisedCapital(d, x) = 0]_vars

\* a default has exhausted the fund, which held less than the uncovered
\* amount, and banks survive it
C26_Witness ==
    \E d \in Banks :
        /\ banks[d].defaulted
        /\ aux.stepped[d] = t
        /\ banks[d].last_intent.action_type \in
               {"pay_margin_call", "FIRE_SALE_ASSET", "sell_asset_standard"}
        /\ aux.waterfalls[d] = 1
        /\ aux.initial_fund > 0
        /\ ccp.default_fund = 0
        /\ Cardinality({x \in Banks : ~banks[x].defaulted}) = 2

----------------------------------------------------------------------------
(* C27: the margin rate and the panic flag of the previous tick            *)

\* the panic flag that the CCP step of tick t found: the one its step of
\* tick t - 1 left, FALSE before the first step
PanicBefore == IF t <= 1 THEN FALSE ELSE ccp.panic_mode_history[t - 1]

\* base_margin + volatility * sensitivity on the volatility of the tick
PlainRate == CcpBaseMargin + (market.current_volatility * CcpMarginSensitivity) \div 10000

\* C27: the margin rate published at tick t is base_margin + volatility x
\* sensitivity, times 1.5 if in panic, clamped to [0.02, 0.30], where the
\* panic flag is the one left by the CCP step of tick t - 1; in the tick in
\* which panic is entered the published rate carries no surcharge.
C27_RateLagsPanic ==
    CcpJustStepped =>
        /\ SystemMarginRate(redis) =
               ClampRate(IF PanicBefore THEN Frac(PlainRate, 1500) ELSE PlainRate)
        /\ ccp.current_margin_rate = SystemMarginRate(redis)
        /\ (ccp.panic_mode /\ ~PanicBefore) =>
               SystemMarginRate(redis) = ClampRate(PlainRate)

\* the CCP has entered panic in this tick and has published the rate
\* without the surcharge that the flag would add
C27_Witness ==
    /\ CcpJustStepped
    /\ ccp.panic_mode
    /\ ~PanicBefore
    /\ SystemMarginRate(redis) = PlainRate
    /\ ClampRate(Frac(PlainRate, 1500)) > PlainRate

----------------------------------------------------------------------------
(* C28: the margin calls of a CCP step                                     *)

\* the calls that the CCP step of this tick has left in b's inbox
CallsOfTick(b) ==
    SelectSeq(Lrange(redis.margin_calls, b), LAMBDA call : call.tick = t)

\* total exposure / capital > threshold, the quotient as it stands: above
\* any threshold when the capital is 0 and the exposure is not, negative
\* when the capital is negative
QuotientExceeds(bank, threshold) ==
    IF bank.capital > 0 THEN TotalExposure(bank) * 1000 > threshold * bank.capital
    ELSE IF bank.capital = 0 THEN TotalExposure(bank) > 0
    ELSE FALSE

\* total exposure / max(capital, 1) > threshold, the ratio of the code
FlooredRatioExceeds(bank, threshold) ==
    TotalExposure(bank) * 1000 > threshold * Max(bank.capital, 100)

\* at most one call per bank and tick, none to a defaulted bank, a call
\* exactly for the live banks that the test selects, addressed to the bank
\* and with the deadline tick + 1 in panic, tick + 2 otherwise
CallsIssuedOn(Test(_, _)) ==
    \A b \in Banks :
        /\ Len(CallsOfTick(b)) <= 1
        /\ banks[b].defaulted => CallsOfTick(b) = <<>>
        /\ CallsOfTick(b) # <<>> <=>
               (~banks[b].defaulted /\ Test(banks[b], ccp.margin_call_threshold))
        /\ \A i \in 1 .. Len(CallsOfTick(b)) :
              LET call == CallsOfTick(b)[i]
              IN  /\ call.action_type = "issue_margin_call"
                  /\ call.payload.target_agent_id = BankId(b)
                  /\ call.payload.deadline_tick =
                         t + (IF ccp.panic_mode THEN 1 ELSE 2)

----------------------------------------------------------------------------
(* C29: the margin-call threshold                                          *)

\* the CCP step being taken enters panic
RisingEdge == ~ccp.panic_mode /\ ccp'.panic_mode

----------------------------------------------------------------------------
(* C30: the action emitted and the utilities                               *)

\* the first action, in the enumeration order, whose utility is the maximum
\* of the utilities u
ArgMax(u) ==
    ActionOrder[CHOOSE k \in 1 .. Len(ActionOrder) :
        /\ \A j \in 1 .. Len(ActionOrder) : u[ActionOrder[j]] <= u[ActionOrder[k]]
        /\ \A j \in 1 .. (k - 1) : u[ActionOrder[j]] < u[ActionOrder[k]]]

\* the decision cannot build the action a: it names a counterparty and no
\* neighbour is live, or it cuts an exposure and the exposure map is empty
Unbuildable(a, c) ==
    \/ a \in {"borrow", "route_otc_proposal", "PROVIDE_INTERBANK_CREDIT"} /\ c.live_nbrs = 0
    \/ a = "reduce_exposure" /\ c.exposures = 0

\* the action type that the bank of the latest decision emitted
Emitted == banks[aux.decided.bank].last_intent.action_type

\* C30 as stated: the action type of the intent a bank emits is always the
\* action with the maximum utility among the 11 actions, ties resolved in
\* favour of the earliest in the enumeration order, in every state,
\* including a bank with no live neighbours or an empty exposure map.
C30_EmitsArgMax ==
    aux.decided.bank \in Banks => Emitted = ArgMax(aux.decided.utilities)

\* C30, amended: the action emitted is the argmax, except that
\* hoard_liquidity is emitted in its place when the argmax cannot be built.
C30_EmitsArgMaxOrHoards ==
    aux.decided.bank \in Banks =>
        Emitted = (IF Unbuildable(ArgMax(aux.decided.utilities), aux.decided)
                   THEN "hoard_liquidity"
                   ELSE ArgMax(aux.decided.utilities))

\* the latest decision ranked reduce_exposure first on an empty exposure
\* map, and the bank emitted hoard_liquidity
C30_Witness ==
    /\ aux.decided.bank \in Banks
    /\ ArgMax(aux.decided.utilities) = "reduce_exposure"
    /\ aux.decided.exposures = 0
    /\ Emitted = "hoard_liquidity"

----------------------------------------------------------------------------
(* C31: the execution of REPAY_INTERBANK_LOAN                              *)

\* the list holds the loan of that id
HoldsLoan(list, loan_id) == \E i \in 1 .. Len(list) : list[i].loan_id = loan_id

\* principal + interest of the repayment that b emits in the step
TotalOwed(b) ==
    banks'[b].last_intent.payload.principal + banks'[b].last_intent.payload.interest

\* the repayment cannot be afforded when it is executed
Partial(b) == TotalOwed(b) > LiquidityAtExecution(banks[b])

\* what the borrower pays: the total, or 0.9 of its liquidity
AmountPaid(b) ==
    IF Partial(b) THEN Frac(LiquidityAtExecution(banks[b]), 900) ELSE TotalOwed(b)

\* nothing but the repayment moves b's liquidity in the step: b holds no OTC
\* loan that matures in it and no overdue loan, and b is not defaulted by
\* its end
OnlyRepaymentMoves(b) ==
    /\ \A i \in 1 .. Len(banks[b].otc_loans) : banks[b].otc_loans[i].remaining_ticks > 1
    /\ \A i \in 1 .. Len(banks[b].interbank_loans_received) :
          \/ banks[b].interbank_loans_received[i].loan_id = LoanRepaid(b).loan_id
          \/ banks[b].interbank_loans_received[i].maturity_tick + Grace >= t
    /\ ~banks'[b].defaulted

\* C31: executing REPAY_INTERBANK_LOAN for a loan on the borrower's
\* received list removes the loan from that list and, when the lender is
\* not defaulted, from the lender's given list in the same step, whether the
\* payment is full or partial; the borrower pays principal + interest when
\* it can afford it and otherwise 0.9 of its liquidity with missed_payment
\* set; when the lender is defaulted the amount is still debited from the
\* borrower and credited to nobody.
C31_RepaymentSettles ==
    [][\A b \in Banks :
          Repays(b) =>
              LET loan == LoanRepaid(b)
                  lender == LenderOf(loan)
              IN  /\ ~HoldsLoan(banks'[b].interbank_loans_received, loan.loan_id)
                  /\ ~banks[lender].defaulted =>
                        ~HoldsLoan(banks'[lender].interbank_loans_given, loan.loan_id)
                  /\ Partial(b) => banks'[b].missed_payment
                  /\ OnlyRepaymentMoves(b) =>
                        /\ banks'[b].liquidity =
                               LiquidityAtExecution(banks[b]) - AmountPaid(b)
                        /\ ~Partial(b) => ~banks'[b].missed_payment
                        /\ IF banks[lender].defaulted
                           THEN \A x \in Banks \ {b} :
                                    banks'[x].liquidity = banks[x].liquidity
                           ELSE \A x \in Banks \ {b} :
                                    banks'[x].liquidity = banks[x].liquidity +
                                        IF x = lender THEN AmountPaid(b) ELSE 0]_vars

\* a borrower has just made a partial repayment: it emitted the repayment
\* in this tick, missed_payment is set, and the loan has left its list and
\* the given list of its live lender
C31_Witness ==
    \E b \in Banks :
        /\ aux.stepped[b] = t
        /\ ~banks[b].defaulted
        /\ banks[b].last_intent.action_type = "REPAY_INTERBANK_LOAN"
        /\ banks[b].missed_payment
        /\ ~HoldsLoan(banks[b].interbank_loans_received,
                      banks[b].last_intent.payload.loan_id)
        /\ \A x \in Banks :
              ~HoldsLoan(banks[x].interbank_loans_given,
                         banks[b].last_intent.payload.loan_id)
        /\ \E x \in Banks \ {b} :
              /\ ~banks[x].defaulted
              /\ \E i \in 1 .. Len(banks[x].intent_log) :
                    /\ banks[x].intent_log[i].action_type = "PROVIDE_INTERBANK_CREDIT"
                    /\ banks[x].intent_log[i].intent_id =
                           banks[b].last_intent.payload.loan_id

----------------------------------------------------------------------------
(* A run long enough for a loan to fall overdue.  min_liquidity = 100: a   *)
(* bank without assets whose liquidity is far below it ranks               *)
(* hoard_liquidity above the repayment of a loan that is due.              *)

\* the ticks of the run: a loan made at tick 1 for 5 ticks is force-settled
\* at tick 9
OverdueTicks == 9

\* a draw under asset ranges of [0, 0], of little liquidity
Idle == [liquidity |-> 1000, capital |-> 8000, liquid_bond |-> 0,
         illiquid_asset |-> 0, exposure |-> 500]

OverdueScenarios ==
    { [draws |-> <<Lender, Idle, Rich>>, fund |-> 10000,
       p |-> [margin_call_threshold |-> MarginCallThreshold, min_liquidity |-> 10000]] }

OverdueInit ==
    \E sc \in OverdueScenarios :
        /\ t = 0
        /\ pc = "shock"
        /\ cur = 0
        /\ network = CompleteGraph
        /\ banks = [b \in Banks |-> NewBank(Draw(sc, b), CompleteGraph[b])]
        /\ ccp = [NewCcp(sc.fund) EXCEPT
                     !.p = sc.p,
                     !.margin_call_threshold = sc.p.margin_call_threshold]
        /\ market = [current_volatility |-> BaseVolatility, price_signal |-> 0]
        /\ redis = SetMarketDepth(Flushed, MarketDepth)
        /\ metrics = NewMetrics
        /\ aux = NewAux(sc.fund)
        /\ procs = NoProcs

\* the tick counter advances; _apply_shock returns at once
OverdueApplyShock ==
    /\ pc = "shock"
    /\ t < OverdueTicks
    /\ t' = t + 1
    /\ pc' = "publish"
    /\ UNCHANGED <<cur, network, banks, ccp, market, redis, metrics, aux, procs>>

OverdueEnd ==
    /\ pc = "shock"
    /\ t = OverdueTicks
    /\ redis' = Flushed
    /\ pc' = "done"
    /\ UNCHANGED <<t, cur, network, banks, ccp, market, metrics, aux, procs>>

OverdueNext ==
    \/ OverdueApplyShock
    \/ PublishToRedis
    \/ PublishMarketData
    \/ CcpStep
    \/ LongBankStep
    \/ RecordMetrics
    \/ OverdueEnd

OverdueSpec == OverdueInit /\ [][OverdueNext]_vars

----------------------------------------------------------------------------
(* C32: bounded settlement of interbank loans                              *)

\* the step being taken is bank b's own step, as a live bank
Steps(b) == pc = "banks" /\ cur = b /\ ~banks[b].defaulted

\* the loans that b's step finds overdue and force-settles: on its received
\* list, past maturity_tick + 2, and not the loan that the step repays
Overdue(b) ==
    SelectSeq(banks[b].interbank_loans_received,
              LAMBDA l : /\ l.maturity_tick + Grace < t
                         /\ ~(Repays(b) /\ l.loan_id = LoanRepaid(b).loan_id))

\* the action that b emits in the step touches no bank but b
ActsAlone(b) ==
    banks'[b].last_intent.action_type \in
        {"hoard_liquidity", "reduce_exposure", "pay_margin_call",
         "sell_asset_standard", "FIRE_SALE_ASSET", "DEPOSIT_DEFAULT_FUND"}

\* no loan of a live bank outlives the bank's step at maturity_tick + 3
SettledInTime ==
    \A b \in Banks :
        ~banks[b].defaulted =>
            \A i \in 1 .. Len(banks[b].interbank_loans_received) :
                banks[b].interbank_loans_received[i].maturity_tick + 3 > aux.stepped[b]

\* C32: every interbank loan on the received list of a bank that stays
\* non-defaulted is removed from that list no later than that bank's step at
\* tick maturity_tick + 3, by voluntary repayment or by forced settlement
\* once tick > maturity_tick + 2; forced settlement pays at most 0.8 of the
\* borrower's liquidity, sets missed_payment, and removes the loan from a
\* non-defaulted lender's given list in the same step.
C32_BoundedSettlement ==
    [][/\ SettledInTime'
       /\ \A b \in Banks :
            Steps(b) =>
                /\ aux'.forced - aux.forced = Len(Overdue(b))
                /\ \A i \in 1 .. Len(Overdue(b)) :
                      LET loan == Overdue(b)[i]
                          lender == LenderOf(loan)
                          credited == banks'[lender].liquidity - banks[lender].liquidity
                      IN  /\ banks'[b].missed_payment
                          /\ ~HoldsLoan(banks'[b].interbank_loans_received, loan.loan_id)
                          /\ ~banks[lender].defaulted =>
                                ~HoldsLoan(banks'[lender].interbank_loans_given,
                                           loan.loan_id)
                          /\ ( /\ Len(Overdue(b)) = 1
                               /\ ~banks[lender].defaulted
                               /\ ActsAlone(b)
                               /\ banks[b].otc_loans = <<>>
                               /\ ~banks'[b].defaulted ) =>
                                /\ credited <=
                                       WithInterest(loan.principal, loan.interest_rate)
                                /\ credited * 1000 <=
                                       800 * (banks'[b].liquidity + credited)]_vars

\* a live bank has just been force-settled at tick maturity_tick + 3, for
\* less than it owed: the loan that a live lender made to it has left both
\* lists and missed_payment is set
C32_Witness ==
    \E b \in Banks, x \in Banks :
        /\ aux.forced > 0
        /\ aux.stepped[b] = t
        /\ ~banks[b].defaulted
        /\ ~banks[x].defaulted
        /\ banks[b].missed_payment
        /\ banks[b].last_intent.action_type = "hoard_liquidity"
        /\ \E i \in 1 .. Len(banks[x].intent_log) :
              LET made == banks[x].intent_log[i]
              IN  /\ made.action_type = "PROVIDE_INTERBANK_CREDIT"
                  /\ made.payload.borrower_bank_id = BankId(b)
                  /\ made.payload.maturity_tick + 3 = t
                  /\ ~HoldsLoan(banks[b].interbank_loans_received, made.intent_id)
                  /\ ~HoldsLoan(banks[x].interbank_loans_given, made.intent_id)
                  /\ banks[b].liquidity * 4 <
                         WithInterest(made.payload.principal, made.payload.interest_rate)

----------------------------------------------------------------------------
(* C33: _exec_deposit_default_fund on the intents it can be handed.  In a  *)
(* run the amount that _choose_action writes is positive and below half    *)
(* the liquidity; here the handler is applied to any amount.               *)

\* the deposits executed in one exploration
MaxDeposits == 2

\* the amounts of the intents, in cents
DepositAmounts == {-500, 0, 100, 2500, 20000}

DepositInit == Init

\* bank b executes DEPOSIT_DEFAULT_FUND of the amount
DepositStep ==
    /\ aux.next_id <= MaxDeposits
    /\ \E b \in Banks, amount \in DepositAmounts :
          LET intent == DepositDefaultFund(aux.next_id, t, BankId(b), amount)
          IN  /\ Install(ExecDepositDefaultFund(
                     [World EXCEPT !.banks[b].last_intent = intent,
                                   !.aux.next_id = @ + 1],
                     b, intent))
              /\ cur' = b
    /\ UNCHANGED <<t, pc, network, market, metrics, procs>>

DepositNext == DepositStep

DepositSpec == DepositInit /\ [][DepositNext]_vars

\* the sum over all banks of default_fund_contribution
Contributions == SumSet([b \in Banks |-> banks[b].default_fund_contribution], Banks)

\* C33: executing DEPOSIT_DEFAULT_FUND with amount > 0 moves exactly
\* d = min(amount, 0.5 x the bank's liquidity): the bank's liquidity falls
\* by d, its default_fund_contribution rises by d and the CCP default_fund
\* rises by the same d; so the sum over all banks of
\* default_fund_contribution equals the total deposited into the fund; and
\* an intent with amount <= 0 changes none of the three.
C33_DepositMovesExactly ==
    [][LET b == cur'
           amount == banks'[b].last_intent.payload.amount
           d == IF amount > 0 THEN Min(amount, Frac(banks[b].liquidity, 500)) ELSE 0
       IN  /\ banks'[b].liquidity = banks[b].liquidity - d
           /\ banks'[b].default_fund_contribution =
                  banks[b].default_fund_contribution + d
           /\ ccp'.default_fund = ccp.default_fund + d
           /\ \A x \in Banks \ {b} :
                 /\ banks'[x].liquidity = banks[x].liquidity
                 /\ banks'[x].default_fund_contribution =
                        banks[x].default_fund_contribution
           /\ Contributions' = ccp'.default_fund - aux'.initial_fund]_vars

\* a bank has deposited half its liquidity, less than the amount asked, and
\* an intent of amount <= 0 has been executed and has moved nothing
C33_Witness ==
    \E b \in Banks, x \in Banks :
        /\ banks[b].last_intent.action_type = "DEPOSIT_DEFAULT_FUND"
        /\ banks[b].last_intent.payload.amount > banks[b].default_fund_contribution
        /\ banks[b].default_fund_contribution > 0
        /\ banks[b].liquidity = banks[b].default_fund_contribution
        /\ banks[x].last_intent.action_type = "DEPOSIT_DEFAULT_FUND"
        /\ banks[x].last_intent.payload.amount <= 0
        /\ banks[x].default_fund_contribution = 0
        /\ ccp.default_fund = aux.initial_fund + banks[b].default_fund_contribution

----------------------------------------------------------------------------
(* C34: missed_payment and the self-execution of an intent                 *)

\* loan ageing, which follows the execution in the step, settles nothing:
\* no OTC loan is collected and no interbank loan is force-settled
NoAgeing == aux'.forced = aux.forced /\ aux'.matured = aux.matured

\* C34: during self-execution of an intent, missed_payment is set only by
\* borrow and REPAY_INTERBANK_LOAN when the attempt is rejected or partial;
\* self-executing any other action type, including a pay_margin_call whose
\* amount is non-positive, leaves missed_payment false.
C34_MissedOnlyByBorrowAndRepay ==
    [][\A b \in Banks :
          ( /\ Steps(b)
            /\ NoAgeing
            /\ banks'[b].last_intent.action_type
                   \notin {"borrow", "REPAY_INTERBANK_LOAN"} ) =>
                ~banks'[b].missed_payment]_vars

\* what the code does: besides borrow and REPAY_INTERBANK_LOAN, the
\* execution of a pay_margin_call of non-positive amount sets missed_payment
C34_MissedAlsoByEmptyMarginPayment ==
    [][\A b \in Banks :
          (Steps(b) /\ NoAgeing) =>
              LET intent == banks'[b].last_intent
              IN  /\ intent.action_type \notin
                         {"borrow", "REPAY_INTERBANK_LOAN", "pay_margin_call"} =>
                        ~banks'[b].missed_payment
                  /\ intent.action_type = "pay_margin_call" =>
                        (banks'[b].missed_payment <=> intent.payload.amount <= 0)]_vars

----------------------------------------------------------------------------
(* C35: one intent per live bank and tick, published before it is executed *)

\* the fields that the execution of a sale adds to the payload of the
\* intent it executes
ExecutionFields == {"execution_price", "market_impact", "cumulative_volume"}

\* the intent as _choose_action built it, before its execution
AsBuilt(intent) ==
    [intent EXCEPT !.payload =
        [k \in (DOMAIN intent.payload) \ ExecutionFields |-> intent.payload[k]]]

\* C35: every bank that is non-defaulted at the start of its step emits
\* exactly one intent in that tick and publishes it to the fabric before any
\* of the intent's balance-sheet effects are applied; a defaulted bank emits
\* none, so intents:queue grows each tick by exactly the number of banks
\* that were non-defaulted when their step began.
C35_OneIntentPerLiveBank ==
    [][pc' # "done" =>
          IF pc = "banks" /\ ~banks[cur].defaulted
          THEN LET intent == banks'[cur].last_intent
               IN  /\ intent.tick = t
                   /\ intent.agent_id = BankId(cur)
                   /\ intent.intent_id \notin
                          {redis.intents_queue[i].intent_id :
                               i \in 1 .. Len(redis.intents_queue)}
                   /\ banks'[cur].intent_log = Append(banks[cur].intent_log, intent)
                   /\ redis'.intents_queue =
                          Append(redis.intents_queue, AsBuilt(intent))
          ELSE /\ redis'.intents_queue = redis.intents_queue
               /\ \A b \in Banks : banks'[b].intent_log = banks[b].intent_log]_vars

\* the banks of tick 3 have stepped, one of them defaulted in an earlier
\* tick and emitted nothing since, the queue holds one intent per step of a
\* live bank, and it holds a sale as it was before its execution priced it
C35_Witness ==
    /\ t = 3 /\ pc = "metrics"
    /\ \E b \in Banks : banks[b].defaulted /\ aux.stepped[b] < 3
    /\ Len(redis.intents_queue) =
           SumSet([b \in Banks |-> Len(banks[b].intent_log)], Banks)
    /\ Len(redis.intents_queue) < 3 * NBanks
    /\ \E b \in Banks :
          /\ aux.stepped[b] = 3
          /\ "execution_price" \in DOMAIN banks[b].last_intent.payload
          /\ \E i \in 1 .. Len(redis.intents_queue) :
                /\ redis.intents_queue[i].intent_id = banks[b].last_intent.intent_id
                /\ "execution_price" \notin DOMAIN redis.intents_queue[i].payload

----------------------------------------------------------------------------
(* C36: the balances of the live banks at the end of a tick                *)

\* C36: at the end of every tick, every bank whose defaulted flag is false
\* has liquidity > 0 and capital > 0: a bank driven to a non-positive
\* liquidity or capital during the tick, by its own action, by the contagion
\* or the mutualisation of another bank's default or by the shock, is
\* defaulted before the tick ends, whatever its place in the iteration.
C36_LiveBanksSolventAtEndOfTick ==
    EndOfTick =>
        \A b \in Banks :
            ~banks[b].defaulted => banks[b].liquidity > 0 /\ banks[b].capital > 0

\* what the code does: a live bank ends its own step with positive
\* balances; the losses that reach it from the default of a bank that steps
\* after it are not checked before its step of the next tick
C36_SolventAtOwnCheck ==
    \A b \in Banks :
        (~banks[b].defaulted /\ aux.stepped[b] >= 1) =>
            aux.at_check[b].liquidity > 0 /\ aux.at_check[b].capital > 0

----------------------------------------------------------------------------
(* C37: no transfer to, and no new claim on, a defaulted bank              *)

\* the counterparty that the intent names
Counterparty(intent) ==
    ResolveTargetByStr(
        IF intent.action_type = "PROVIDE_INTERBANK_CREDIT"
        THEN Get(intent.payload, "borrower_bank_id", "")
        ELSE Get(intent.payload, "target_agent_id", ""))

\* the step of b executes a transfer with a counterparty: an OTC loan or an
\* interbank credit that b records, or a borrowing that moves money
Transfers(b) ==
    /\ Steps(b)
    /\ \/ /\ banks'[b].last_intent.action_type = "route_otc_proposal"
          /\ Len(banks'[b].otc_loans) > 0
          /\ banks'[b].otc_loans[Len(banks'[b].otc_loans)].loan_id =
                 banks'[b].last_intent.intent_id
       \/ /\ banks'[b].last_intent.action_type = "PROVIDE_INTERBANK_CREDIT"
          /\ HoldsLoan(banks'[Counterparty(banks'[b].last_intent)].interbank_loans_received,
                       banks'[b].last_intent.intent_id)
       \/ /\ banks'[b].last_intent.action_type = "borrow"
          /\ aux'.borrowed > aux.borrowed

\* C37: no bank ever transfers liquidity to, or records a new loan or a new
\* exposure against, a bank that is already defaulted: the counterparty of
\* every executed route_otc_proposal, borrow and PROVIDE_INTERBANK_CREDIT is
\* non-defaulted at the moment the transfer is applied.
C37_NoDealingWithDefaulted ==
    [][/\ \A b \in Banks :
            Transfers(b) =>
                /\ Counterparty(banks'[b].last_intent) \in Banks \ {b}
                /\ ~banks[Counterparty(banks'[b].last_intent)].defaulted
       /\ \A d \in Banks :
            banks[d].defaulted =>
                /\ banks'[d].liquidity = banks[d].liquidity
                /\ banks'[d].interbank_loans_received = banks[d].interbank_loans_received
                /\ \A y \in Banks :
                      /\ Get(banks'[y].exposure_to_neighbors, d, 0) <=
                             Get(banks[y].exposure_to_neighbors, d, 0)
                      /\ \A i \in 1 .. Len(banks'[y].otc_loans) :
                            ResolveTargetByStr(banks'[y].otc_loans[i].target) = d =>
                                \E j \in 1 .. Len(banks[y].otc_loans) :
                                    banks[y].otc_loans[j].loan_id =
                                        banks'[y].otc_loans[i].loan_id]_vars

\* a bank has just lent over the counter to a live neighbour while another
\* of its neighbours was already defaulted
C37_Witness ==
    \E b \in Banks, d \in Banks :
        /\ aux.stepped[b] = t
        /\ d \in network[b]
        /\ banks[d].defaulted
        /\ aux.stepped[d] < t
        /\ banks[b].last_intent.action_type = "route_otc_proposal"
        /\ Len(banks[b].otc_loans) > 0
        /\ banks[b].otc_loans[Len(banks[b].otc_loans)].loan_id =
               banks[b].last_intent.intent_id
        /\ Counterparty(banks[b].last_intent) \in network[b] \ {d}

----------------------------------------------------------------------------
(* C38: bilateral transfers conserve liquidity                             *)

\* the liquidity of all the banks
TotalLiquidity == SumSet([b \in Banks |-> banks[b].liquidity], Banks)

\* the actions that move liquidity between the emitter and a counterparty
TransferActions ==
    {"route_otc_proposal", "borrow", "PROVIDE_INTERBANK_CREDIT", "REPAY_INTERBANK_LOAN"}

\* what the executed action itself adds to b's liquidity from outside the
\* banks: nothing for a transfer, the recovery on the exposures cut for
\* hoard_liquidity
OwnGain(b) ==
    IF banks'[b].last_intent.action_type = "hoard_liquidity"
    THEN LET exp == banks[b].exposure_to_neighbors
         IN  SumSet([n \in DOMAIN exp |-> Frac(Frac(exp[n], 50), 300)], DOMAIN exp)
    ELSE 0

\* every party of the transfers of b's step is and stays non-defaulted: b
\* itself, the lender of the loan it repays and the lenders of the loans
\* that are force-settled (a matured OTC loan collects nothing from a
\* defaulted target)
PartiesLive(b) ==
    /\ ~banks'[b].defaulted
    /\ Repays(b) => ~banks[LenderOf(LoanRepaid(b))].defaulted
    /\ \A i \in 1 .. Len(Overdue(b)) : ~banks[LenderOf(Overdue(b)[i])].defaulted

\* C38: bilateral transfers conserve liquidity: when both parties are
\* non-defaulted, OTC proposal, borrow, PROVIDE_INTERBANK_CREDIT,
\* REPAY_INTERBANK_LOAN, OTC maturity collection and forced interbank
\* settlement each debit one party by exactly the amount credited to the
\* other: over a step made of such transfers the liquidity of all the banks
\* changes by the stepping bank's operating cost and passive income alone.
C38_TransfersConserveLiquidity ==
    [][\A b \in Banks :
          ( /\ Steps(b)
            /\ banks'[b].last_intent.action_type \in
                   TransferActions \cup {"hoard_liquidity"}
            /\ PartiesLive(b) ) =>
                TotalLiquidity' =
                    TotalLiquidity
                        + (LiquidityAtExecution(banks[b]) - banks[b].liquidity)
                        + OwnGain(b)]_vars

\* in one run a borrowing has moved money and an OTC loan has been
\* collected at maturity, and the live bank that has just stepped executed
\* a transfer
C38_Witness ==
    /\ aux.borrowed > 0
    /\ aux.matured > 0
    /\ \E b \in Banks :
          /\ aux.stepped[b] = t
          /\ ~banks[b].defaulted
          /\ banks[b].last_intent.action_type \in TransferActions

----------------------------------------------------------------------------
(* C39: exposures to a defaulted bank                                      *)

\* C39: after bank D has defaulted no non-defaulted bank keeps a positive
\* exposure to D (so the total exposure the CCP observes counts none and a
\* second waterfall for D would find nothing uncovered).
C39_NoExposureToDefaulted ==
    \A d \in Banks : \A x \in Banks \ {d} :
        (banks[d].defaulted /\ ~banks[x].defaulted) =>
            Get(banks[x].exposure_to_neighbors, d, 0) <= 0

\* what the code does: _default clears the defaulter's own exposure map
\* only; the step in which d defaults leaves every other bank's exposure to
\* d no smaller than it was
C39_SurvivorsKeepExposure ==
    [][\A d \in Banks : \A x \in Banks \ {d} :
          (~banks[d].defaulted /\ banks'[d].defaulted /\ ~banks'[x].defaulted
           /\ pc = "banks" /\ cur = d) =>
              Get(banks'[x].exposure_to_neighbors, d, 0) >=
                  Get(banks[x].exposure_to_neighbors, d, 0)]_vars

----------------------------------------------------------------------------
(* C40: the life of an OTC loan                                            *)

\* the route_otc_proposal intent of lender b that recorded the loan
ProposalOf(b, loan) ==
    SelectSeq(banks[b].intent_log, LAMBDA x : x.intent_id = loan.loan_id)[1]

\* the tick at which the loan was recorded and its tenor_ticks
RecordedAt(b, loan) == ProposalOf(b, loan).tick

TenorOf(b, loan) ==
    Get(Get(ProposalOf(b, loan).payload, "encrypted_content", EmptyMap),
        "tenor_ticks", 10)

\* the loan leaves b's book in this step
LeavesBook(b, loan) == ~HoldsLoan(banks'[b].otc_loans, loan.loan_id)

\* C40: an OTC loan recorded at tick t with tenor_ticks = n >= 1 is
\* settled and removed in the lender's step at tick t+n and at no earlier
\* tick, provided the lender has not defaulted.
C40_OtcSettledAtTenor ==
    [][\A b \in Banks :
          (Steps(b) /\ ~banks'[b].defaulted) =>
              \A i \in 1 .. Len(banks[b].otc_loans) :
                  LET loan == banks[b].otc_loans[i]
                  IN  LeavesBook(b, loan) <=>
                          t = RecordedAt(b, loan) + TenorOf(b, loan)]_vars

\* what the code does: _tick_otc_loans runs in the step that records the
\* loan too, so the loan is settled in the lender's step at tick t+n-1
C40_OtcSettledOneTickBeforeTenor ==
    [][\A b \in Banks :
          (Steps(b) /\ ~banks'[b].defaulted) =>
              \A i \in 1 .. Len(banks[b].otc_loans) :
                  LET loan == banks[b].otc_loans[i]
                  IN  LeavesBook(b, loan) <=>
                          t = RecordedAt(b, loan) + TenorOf(b, loan) - 1]_vars

====
